---- MODULE Spec2Model ----
(***************************************************************************)
(* redisfs: a FUSE filesystem whose inodes, directory sets and inode       *)
(* counter live in a redis store.  The model follows src/src/redisfs.c:    *)
(* the store is the value `redis`, each fs_* handler is one action, and    *)
(* the path helpers get_parent / get_basename are operators over strings   *)
(* represented as sequences of one-character strings.                      *)
(***************************************************************************)
EXTENDS Integers, Sequences, FiniteSets, TLC

VARIABLES
    redis,       \* the store behind _g_redis: INODE keys, DIRENT sets, GLOBAL:INODE
    read_only,   \* _g_read_only
    fast,        \* _g_fast
    now,         \* the value time(NULL) returns
    steps,       \* number of handler calls this run may still make
    last,        \* the last handler call: its arguments, return value and outputs
    called,      \* the handlers that have returned without an error so far
    threads,     \* the bridge's threads that call handlers at the same time:
                 \* where each stands in its handler, and its local variables
    lock,        \* _g_lock: the thread that holds it, 0 when it is free
    conn         \* _g_redis: the replies the connection has not handed over yet,
                 \* and what the handler running last sent and was handed

vars == <<redis, read_only, fast, now, steps, last, called, threads, lock, conn>>

\* a run in which the bridge calls one handler after the other
NoThreads == <<>>

\* a connection that has just been made: nothing sent, nothing to read
Connected == [pending |-> <<>>, issued |-> <<>>, got |-> <<>>, blocked |-> FALSE,
              connections |-> 1]

-----------------------------------------------------------------------------
(* Bounds of the model *)

MaxInode == 4
MaxSteps == 3
StressSteps == 6
RoSteps == 2
DataSteps == 3
AttrSteps == 2
DirSteps == 3
LinkSteps == 3
MaxOffset == 2
MaxSize == 3
MaxTime == 2

-----------------------------------------------------------------------------
(* errno values and mode bits (Linux) *)

EPERM == 1
ENOENT == 2
ENOTEMPTY == 39
\* 0040000, 0100000 and 0120000
S_IFDIR == 16384
S_IFREG == 8 * 4096
S_IFLNK == 40960
\* a mode written with its octal digits, as the source writes 0444 and 0755
Octal(a, b, c) == a * 64 + b * 8 + c
\* 0444, the mode fs_symlink gives every link
LinkMode == Octal(4, 4, 4)

\* the inode number find_inode gives the root directory
ROOT == -99
\* the value find_inode returns when nothing matches
NOT_FOUND == -1
\* the return value of a handler that dereferenced a null pointer (SIGSEGV)
SEGV == -1000

-----------------------------------------------------------------------------
(* Strings: sequences of one-character strings *)

SLASH == "/"
\* the NULL pointer get_parent returns; no string equals it
NULL == <<"NULL">>

Str1(c) == <<c>>
RootPath == <<SLASH>>

\* strrchr(s, '/'): index of the last '/', 0 when there is none
RECURSIVE strrchr_slash(_, _)
strrchr_slash(s, i) ==
    IF i = 0 THEN 0
    ELSE IF s[i] = SLASH THEN i
    ELSE strrchr_slash(s, i - 1)

LastSlash(s) == strrchr_slash(s, Len(s))

\* get_parent without the step that turns an empty result into "/"
get_parent_bare(path) ==
    IF path = NULL THEN NULL
    ELSE LET p == LastSlash(path) IN
         IF p = 0 THEN NULL
         ELSE SubSeq(path, 1, p - 1)

get_parent(path) ==
    IF path = NULL THEN NULL
    ELSE LET p == LastSlash(path) IN
         IF p = 0 THEN NULL
         ELSE LET cut == SubSeq(path, 1, p - 1) IN
              IF cut = <<>> THEN RootPath ELSE cut

\* get_basename without the step past the last '/'
get_basename_from_slash(path) ==
    IF path = NULL THEN NULL
    ELSE LET p == LastSlash(path) IN
         IF p = 0 THEN path
         ELSE SubSeq(path, p, Len(path))

get_basename(path) ==
    IF path = NULL THEN NULL
    ELSE LET p == LastSlash(path) IN
         IF p = 0 THEN path
         ELSE SubSeq(path, p + 1, Len(path))

-----------------------------------------------------------------------------
(* The store *)

AttrNames ==
    {"NAME", "TYPE", "MODE", "GID", "UID", "ATIME", "CTIME", "MTIME",
     "SIZE", "DATA", "LINK", "TARGET"}

\* inode numbers that can appear in a key: the root, the not-found value
\* (no handler checks it before building a key) and the allocated numbers
InodeIds == {ROOT, NOT_FOUND} \cup (1 .. MaxInode)

\* a key that does not exist is <<>>, a key holding v is <<v>>
Nil == <<>>
Val(v) == <<v>>

NoAttrs == [a \in AttrNames |-> Nil]

EmptyStore ==
    [INODE  |-> [i \in InodeIds |-> NoAttrs],
     DIRENT |-> [i \in InodeIds |-> <<>>],
     GLOBAL_INODE |-> 0]

Exists(S, i, a) == S.INODE[i][a] # Nil
Get(S, i, a) == S.INODE[i][a][1]

\* The store holds text.  "%d" writes a number in decimal ...
Digits == <<"0", "1", "2", "3", "4", "5", "6", "7", "8", "9">>

RECURSIVE FmtNat(_)
FmtNat(n) ==
    IF n < 10 THEN <<Digits[n + 1]>>
    ELSE FmtNat(n \div 10) \o <<Digits[(n % 10) + 1]>>

Fmt_d(n) == IF n < 0 THEN <<"-">> \o FmtNat(-n) ELSE FmtNat(n)

\* ... and atoi reads an optional sign and the digits up to the first other byte
DigitVal(c) == CHOOSE d \in 0 .. 9 : Digits[d + 1] = c
IsDigit(c) == \E d \in 0 .. 9 : Digits[d + 1] = c

RECURSIVE atoi_digits(_, _)
atoi_digits(s, acc) ==
    IF s = <<>> \/ ~IsDigit(Head(s)) THEN acc
    ELSE atoi_digits(Tail(s), acc * 10 + DigitVal(Head(s)))

atoi(s) ==
    IF s # <<>> /\ Head(s) = "-" THEN -atoi_digits(Tail(s), 0)
    ELSE atoi_digits(s, 0)

\* MSET / SET of several attributes of one inode
RECURSIVE MSet(_, _, _)
MSet(S, i, kv) ==
    IF kv = <<>> THEN S
    ELSE MSet([S EXCEPT !.INODE[i][kv[1][1]] = Val(kv[1][2])], i, Tail(kv))

Del(S, i, a) == [S EXCEPT !.INODE[i][a] = Nil]

Members(S, i) == { S.DIRENT[i][k] : k \in 1 .. Len(S.DIRENT[i]) }

InsertAt(s, pos, x) == SubSeq(s, 1, pos) \o <<x>> \o SubSeq(s, pos + 1, Len(s))

\* SADD: a set keeps one copy; SMEMBERS gives no promise on the order, so a new
\* member lands at any position
SAdd(S, d, m, pos) ==
    IF m \in Members(S, d) THEN S
    ELSE [S EXCEPT !.DIRENT[d] =
             InsertAt(@, IF pos > Len(@) THEN Len(@) ELSE pos, m)]

SRem(S, d, m) ==
    [S EXCEPT !.DIRENT[d] = SelectSeq(@, LAMBDA x : x # m)]

-----------------------------------------------------------------------------
(* Helpers of the handlers *)

\* an allocator that gives out the smallest number that has no keys
get_next_inode_reusing(S) ==
    LET free == { i \in 1 .. MaxInode : \A a \in AttrNames : ~Exists(S, i, a) }
        val == CHOOSE i \in free : \A j \in free : i <= j
    IN  [redis |-> [S EXCEPT !.GLOBAL_INODE = IF val > @ THEN val ELSE @], val |-> val]

\* get_next_inode handing out the next number without storing it
get_next_inode_unstored(S) == [redis |-> S, val |-> S.GLOBAL_INODE + 1]

\* INCR GLOBAL:INODE; the reply is the new value
get_next_inode(S) ==
    [redis |-> [S EXCEPT !.GLOBAL_INODE = @ + 1], val |-> S.GLOBAL_INODE + 1]

\* the reply to INCR is NULL or no integer: val keeps the -1 it started with
get_next_inode_failed(S) == [redis |-> S, val |-> -1]

\* what INCR GLOBAL:INODE is answered with
IncrReplies == {"integer", "error"}
get_next_inode_replied(S, incr) ==
    IF incr = "integer" THEN get_next_inode(S) ELSE get_next_inode_failed(S)

\* remove_inode without the DEL of the DATA key
remove_inode_keys_but_DATA ==
    <<"NAME", "TYPE", "MODE", "GID", "UID", "ATIME", "CTIME", "MTIME",
      "SIZE", "LINK", "TARGET">>

\* the twelve DEL commands, skipped for a negative inode
remove_inode_keys ==
    <<"NAME", "TYPE", "MODE", "GID", "UID", "ATIME", "CTIME", "MTIME",
      "SIZE", "DATA", "LINK", "TARGET">>

RECURSIVE DelAll(_, _, _)
DelAll(S, i, names) ==
    IF names = <<>> THEN S ELSE DelAll(Del(S, i, Head(names)), i, Tail(names))

remove_inode(S, inode) ==
    IF inode < 0 THEN S ELSE DelAll(S, inode, remove_inode_keys)

\* a scan that stops at the first member whose name is equal
RECURSIVE scan_names_first(_, _, _, _)
scan_names_first(S, members, entry, val) ==
    IF members = <<>> THEN val
    ELSE IF S.INODE[Head(members)]["NAME"] = Val(entry) THEN Head(members)
    ELSE scan_names_first(S, Tail(members), entry, val)

\* the scan of find_inode over the SMEMBERS reply and the MGET of the names:
\* val is overwritten by every member whose NAME equals entry, so the last
\* match in reply order is the one returned
RECURSIVE scan_names(_, _, _, _)
scan_names(S, members, entry, val) ==
    IF members = <<>> THEN val
    ELSE scan_names(S, Tail(members), entry,
                    IF S.INODE[Head(members)]["NAME"] = Val(entry)
                    THEN Head(members) ELSE val)

\* a member whose NAME key is missing comes back as a nil element with a null
\* str, which the scan hands to strcmp
NilName(S, d) == \E m \in Members(S, d) : ~Exists(S, m, "NAME")

RECURSIVE find_inode(_, _)
find_inode(S, path) ==
    IF path = RootPath THEN ROOT
    ELSE IF path = NULL THEN SEGV
    ELSE LET parent == get_parent(path)
             parent_inode == find_inode(S, parent)
             entry == get_basename(path)
         IN  IF parent_inode = SEGV THEN SEGV
             ELSE IF NilName(S, parent_inode) THEN SEGV
             ELSE scan_names(S, S.DIRENT[parent_inode], entry, NOT_FOUND)

\* 1 for a directory, 0 for anything else, -1 when the path does not resolve
is_directory(S, path) ==
    LET inode == find_inode(S, path) IN
    IF inode = SEGV THEN SEGV
    ELSE IF inode = NOT_FOUND THEN -1
    ELSE IF S.INODE[inode]["TYPE"] = Val("DIR") THEN 1 ELSE 0

count_directory_entries(S, path) ==
    LET inode == find_inode(S, path) IN
    IF inode = SEGV THEN SEGV ELSE Len(S.DIRENT[inode])

-----------------------------------------------------------------------------
(* What a handler call leaves behind *)

ZeroStat ==
    [st_mode |-> 0, st_nlink |-> 0, st_uid |-> 0, st_gid |-> 0, st_size |-> 0,
     st_atime |-> 0, st_mtime |-> 0, st_ctime |-> 0]

\* the store after the call, the return value, the inode the handler worked on
\* (allocated or resolved), the bytes or names handed back, the stat buffer,
\* whether redis_alive ran, and how often _g_lock is held on return
Res(S, ret, ino, out, stbuf) ==
    [redis |-> S, ret |-> ret, ino |-> ino, out |-> out, stbuf |-> stbuf,
     alive |-> TRUE, locks |-> 1, mutex |-> 0]

Ret(S, ret) == Res(S, ret, 0, <<>>, ZeroStat)
RetIno(S, ret, ino) == Res(S, ret, ino, <<>>, ZeroStat)
\* the process died inside the handler: nothing more was written, and the
\* lock was never released
Crash(S) == [Ret(S, SEGV) EXCEPT !.mutex = 1]
\* the read-only return without its pthread_mutex_unlock
Refuse_holding(S) == [Ret(S, -EPERM) EXCEPT !.alive = FALSE, !.mutex = 1]
\* the early return of a handler that finds _g_read_only set
Refuse(S) == [Ret(S, -EPERM) EXCEPT !.alive = FALSE]
\* the early return of fs_open and fs_access under --fast, before the lock
Skip(S) == [Ret(S, 0) EXCEPT !.alive = FALSE, !.locks = 0]

-----------------------------------------------------------------------------
(* The handlers, after the read-only test *)

\* the ten attributes create and mkdir write with one MSET
new_entry_attrs(entry, type, mode, uid, gid, t) ==
    << <<"NAME", entry>>, <<"TYPE", type>>, <<"MODE", Fmt_d(mode)>>,
       <<"UID", Fmt_d(uid)>>, <<"GID", Fmt_d(gid)>>, <<"SIZE", Fmt_d(0)>>,
       <<"CTIME", Fmt_d(t)>>, <<"MTIME", Fmt_d(t)>>, <<"ATIME", Fmt_d(t)>>, <<"LINK", Fmt_d(1)>> >>

\* fs_mkdir, given what get_next_inode returned
mkdir_with(alloc, path, mode, uid, gid, t, pos) ==
    LET parent == get_parent(path)
        entry == get_basename(path)
        new_inode == alloc.val
        parent_inode == find_inode(alloc.redis, parent)
    IN  IF parent_inode = SEGV THEN Crash(alloc.redis)
        ELSE RetIno(MSet(SAdd(alloc.redis, parent_inode, new_inode, pos), new_inode,
                         new_entry_attrs(entry, "DIR", mode, uid, gid, t)),
                    0, new_inode)

mkdir_body(S, path, mode, uid, gid, t, pos) ==
    mkdir_with(get_next_inode(S), path, mode, uid, gid, t, pos)

\* fs_create, given what get_next_inode returned
create_with(S, alloc, path, mode, uid, gid, t, pos) ==
    LET parent == get_parent(path)
        parent_inode == find_inode(S, parent)
        entry == get_basename(path)
        key == alloc.val
    IN  IF parent_inode = SEGV THEN Crash(S)
        ELSE RetIno(MSet(SAdd(alloc.redis, parent_inode, key, pos), key,
                         new_entry_attrs(entry, "FILE", mode, uid, gid, t)),
                    0, key)

create_body(S, path, mode, uid, gid, t, pos) ==
    create_with(S, get_next_inode(S), path, mode, uid, gid, t, pos)

\* fs_symlink, given what get_next_inode returned
symlink_with(S, alloc, target, path, uid, gid, t, pos) ==
    LET parent == get_parent(path)
        parent_inode == find_inode(S, parent)
        entry == get_basename(path)
        key == alloc.val
    IN  IF parent_inode = SEGV THEN Crash(S)
        ELSE RetIno(MSet(SAdd(alloc.redis, parent_inode, key, pos), key,
                         << <<"NAME", entry>>, <<"TYPE", "LINK">>,
                            <<"TARGET", target>>, <<"MODE", Fmt_d(LinkMode)>>,
                            <<"UID", Fmt_d(uid)>>, <<"GID", Fmt_d(gid)>>,
                            <<"SIZE", Fmt_d(0)>>, <<"CTIME", Fmt_d(t)>>, <<"MTIME", Fmt_d(t)>>,
                            <<"ATIME", Fmt_d(t)>>, <<"LINK", Fmt_d(1)>> >>),
                    0, key)

symlink_body(S, target, path, uid, gid, t, pos) ==
    symlink_with(S, get_next_inode(S), target, path, uid, gid, t, pos)

\* fs_rmdir without its call of count_directory_entries
rmdir_body_uncounted(S, path) ==
    LET isdir == is_directory(S, path)
        parent_inode == find_inode(S, get_parent(path))
        inode == find_inode(S, path)
    IN  IF isdir = SEGV THEN Crash(S)
        ELSE IF isdir = 0 THEN Ret(S, -ENOENT)
        ELSE IF inode = NOT_FOUND THEN Ret(S, -ENOENT)
        ELSE RetIno(remove_inode(SRem(S, parent_inode, inode), inode), 0, inode)

rmdir_body(S, path) ==
    LET isdir == is_directory(S, path)
        count == count_directory_entries(S, path)
        parent == get_parent(path)
        parent_inode == find_inode(S, parent)
        inode == find_inode(S, path)
    IN  IF isdir = SEGV THEN Crash(S)
        ELSE IF isdir = 0 THEN Ret(S, -ENOENT)
        ELSE IF count # 0 THEN RetIno(S, -ENOTEMPTY, inode)
        ELSE IF inode = NOT_FOUND THEN Ret(S, -ENOENT)
        ELSE RetIno(remove_inode(SRem(S, parent_inode, inode), inode), 0, inode)

\* fs_unlink without the SREM from the parent's set
unlink_body_keeping_member(S, path) ==
    LET inode == find_inode(S, path)
    IN  IF inode = SEGV THEN Crash(S)
        ELSE IF inode = NOT_FOUND THEN Ret(S, -ENOENT)
        ELSE RetIno(remove_inode(S, inode), 0, inode)

unlink_body(S, path) ==
    LET inode == find_inode(S, path)
        parent == get_parent(path)
        parent_inode == find_inode(S, parent)
    IN  IF inode = SEGV THEN Crash(S)
        ELSE IF inode = NOT_FOUND THEN Ret(S, -ENOENT)
        ELSE RetIno(remove_inode(SRem(S, parent_inode, inode), inode), 0, inode)

\* a rename that writes TYPE together with NAME
rename_body_retyping(S, old, path, pos) ==
    LET old_inode == find_inode(S, old)
        S1 == MSet(S, old_inode, << <<"NAME", get_basename(path)>>, <<"TYPE", "FILE">> >>)
        old_parent == find_inode(S1, get_parent(old))
        S2 == SRem(S1, old_parent, old_inode)
        new_parent == find_inode(S2, get_parent(path))
    IN  IF old_inode = SEGV THEN Crash(S)
        ELSE IF old_inode = NOT_FOUND THEN Ret(S, -ENOENT)
        ELSE IF old_parent = SEGV THEN Crash(S1)
        ELSE IF new_parent = SEGV THEN Crash(S2)
        ELSE RetIno(SAdd(S2, new_parent, old_inode, pos), 0, old_inode)

rename_body(S, old, path, pos) ==
    LET old_inode == find_inode(S, old)
        S1 == MSet(S, old_inode, << <<"NAME", get_basename(path)>> >>)
        old_parent == find_inode(S1, get_parent(old))
        S2 == SRem(S1, old_parent, old_inode)
        new_parent == find_inode(S2, get_parent(path))
    IN  IF old_inode = SEGV THEN Crash(S)
        ELSE IF old_inode = NOT_FOUND THEN Ret(S, -ENOENT)
        ELSE IF old_parent = SEGV THEN Crash(S1)
        ELSE IF new_parent = SEGV THEN Crash(S2)
        ELSE RetIno(SAdd(S2, new_parent, old_inode, pos), 0, old_inode)

\* bytes buf[1..n], padded with what lies behind a shorter buffer in memory
GARBAGE == "?"
Take(buf, n) == [k \in 1 .. n |-> IF k <= Len(buf) THEN buf[k] ELSE GARBAGE]

\* fs_write taking the branch for offset > 0 at every offset
write_body_appending(S, path, buf, offset, t) ==
    LET inode == find_inode(S, path)
        size == Len(buf)
        oldsize == IF Exists(S, inode, "SIZE") THEN atoi(Get(S, inode, "SIZE")) ELSE 0
        olddata == IF Exists(S, inode, "DATA") THEN Get(S, inode, "DATA") ELSE <<>>
    IN  IF inode = SEGV THEN Crash(S)
        ELSE RetIno(MSet(S, inode, << <<"SIZE", Fmt_d(oldsize + size)>>,
                                      <<"DATA", olddata \o buf>>,
                                      <<"MTIME", Fmt_d(t)>> >>),
                    size, inode)

\* fs_write taking the branch for offset = 0 at every offset
write_body_replacing(S, path, buf, offset, t) ==
    LET inode == find_inode(S, path)
        size == Len(buf)
    IN  IF inode = SEGV THEN Crash(S)
        ELSE RetIno(MSet(S, inode, << <<"SIZE", Fmt_d(size)>>, <<"MTIME", Fmt_d(t)>>,
                                      <<"DATA", buf>> >>),
                    size, inode)

write_body(S, path, buf, offset, t) ==
    LET inode == find_inode(S, path)
        size == Len(buf)
    IN  IF inode = SEGV THEN Crash(S)
        ELSE IF offset = 0
        THEN RetIno(MSet(S, inode, << <<"SIZE", Fmt_d(size)>>, <<"MTIME", Fmt_d(t)>>,
                                      <<"DATA", buf>> >>),
                    size, inode)
        ELSE LET oldsize == IF Exists(S, inode, "SIZE") THEN atoi(Get(S, inode, "SIZE")) ELSE 0
                 olddata == IF Exists(S, inode, "DATA") THEN Get(S, inode, "DATA") ELSE <<>>
                 S1 == MSet(S, inode, << <<"SIZE", Fmt_d(oldsize + size)>>,
                                         <<"DATA", olddata \o buf>> >>)
             IN  RetIno(IF fast THEN S1 ELSE MSet(S1, inode, << <<"MTIME", Fmt_d(t)>> >>),
                        size, inode)

\* GETRANGE key start end: the bytes start..end (from 0, both included) that exist
GetRange(data, start, end) ==
    SubSeq(data, start + 1, IF end + 1 > Len(data) THEN Len(data) ELSE end + 1)

\* size and sz are size_t: when offset lies behind the end of the file,
\* sz - offset wraps around to a value near 2^64, written here as the negative
\* number it is congruent to; memcpy of that many bytes runs off the heap
read_body(S, path, size, offset) ==
    LET inode == find_inode(S, path)
        sz == atoi(Get(S, inode, "SIZE"))
        size1 == IF sz < size THEN sz ELSE size
        size2 == IF offset + size1 > sz THEN sz - offset ELSE size1
        data == IF Exists(S, inode, "DATA") THEN Get(S, inode, "DATA") ELSE <<>>
        reply == GetRange(data, offset, size2 + offset)
    IN  IF inode = SEGV THEN Crash(S)
        ELSE IF inode = NOT_FOUND THEN Ret(S, -ENOENT)
        ELSE IF ~Exists(S, inode, "SIZE") THEN Crash(S)
        ELSE IF size2 < 0 THEN Crash(S)
        ELSE Res(S, size2, inode, Take(reply, size2), ZeroStat)

\* fs_truncate with the DEL of DATA and without the MSET of SIZE and MTIME
truncate_body_data_only(S, path, t) ==
    LET isdir == is_directory(S, path)
        inode == find_inode(S, path)
    IN  IF isdir = SEGV THEN Crash(S)
        ELSE IF isdir # 0 THEN Ret(S, -ENOENT)
        ELSE IF inode = NOT_FOUND THEN Ret(S, -ENOENT)
        ELSE RetIno(Del(S, inode, "DATA"), 0, inode)

truncate_body(S, path, t) ==
    LET isdir == is_directory(S, path)
        inode == find_inode(S, path)
    IN  IF isdir = SEGV THEN Crash(S)
        ELSE IF isdir # 0 THEN Ret(S, -ENOENT)
        ELSE IF inode = NOT_FOUND THEN Ret(S, -ENOENT)
        ELSE RetIno(MSet(Del(S, inode, "DATA"), inode,
                         << <<"SIZE", Fmt_d(0)>>, <<"MTIME", Fmt_d(t)>> >>),
                    0, inode)

chown_body(S, path, uid, gid, t) ==
    LET inode == find_inode(S, path) IN
    IF inode = SEGV THEN Crash(S)
    ELSE IF inode = NOT_FOUND THEN Ret(S, -ENOENT)
    ELSE RetIno(MSet(S, inode, << <<"UID", Fmt_d(uid)>>, <<"GID", Fmt_d(gid)>>,
                                  <<"MTIME", Fmt_d(t)>> >>),
                0, inode)

\* fs_chmod without its test of the inode it resolved
chmod_body_unchecked(S, path, mode, t) ==
    LET inode == find_inode(S, path) IN
    IF inode = SEGV THEN Crash(S)
    ELSE RetIno(MSet(S, inode, << <<"MODE", Fmt_d(mode)>>, <<"MTIME", Fmt_d(t)>> >>),
                0, inode)

chmod_body(S, path, mode, t) ==
    LET inode == find_inode(S, path) IN
    IF inode = SEGV THEN Crash(S)
    ELSE IF inode = NOT_FOUND THEN Ret(S, -ENOENT)
    ELSE RetIno(MSet(S, inode, << <<"MODE", Fmt_d(mode)>>, <<"MTIME", Fmt_d(t)>> >>),
                0, inode)

utimens_body(S, path, atime, mtime) ==
    LET inode == find_inode(S, path) IN
    IF inode = SEGV THEN Crash(S)
    ELSE IF inode = NOT_FOUND THEN Ret(S, -ENOENT)
    ELSE RetIno(MSet(S, inode, << <<"ATIME", Fmt_d(atime)>>, <<"MTIME", Fmt_d(mtime)>> >>),
                0, inode)

\* fs_open and fs_access setting MTIME along with ATIME
atime_body_and_mtime(S, path, t) ==
    LET inode == find_inode(S, path) IN
    LET R == IF inode = SEGV THEN Crash(S)
             ELSE IF inode = NOT_FOUND THEN Ret(S, 0)
             ELSE RetIno(MSet(S, inode, << <<"ATIME", Fmt_d(t)>>,
                                           <<"MTIME", Fmt_d(t)>> >>), 0, inode)
    IN  [R EXCEPT !.alive = (path # RootPath)]

\* fs_open and fs_access after the test of _g_fast
atime_body(S, path, t) ==
    LET inode == find_inode(S, path) IN
    LET R == IF inode = SEGV THEN Crash(S)
             ELSE IF inode = NOT_FOUND THEN Ret(S, 0)
             ELSE RetIno(MSet(S, inode, << <<"ATIME", Fmt_d(t)>> >>), 0, inode)
    \* redis_alive is called by find_inode only, behind its test for "/"
    IN  [R EXCEPT !.alive = (path # RootPath)]

readlink_body(S, path) ==
    LET inode == find_inode(S, path) IN
    IF inode = SEGV THEN Crash(S)
    ELSE IF inode = NOT_FOUND THEN Ret(S, -ENOENT)
    ELSE IF Exists(S, inode, "TARGET")
         THEN Res(S, 0, inode, Get(S, inode, "TARGET"), ZeroStat)
    ELSE RetIno(S, -ENOENT, inode)

DOT == <<".">>
DOTDOT == <<".", ".">>

RECURSIVE entry_names(_, _)
entry_names(S, members) ==
    IF members = <<>> THEN <<>>
    ELSE <<Get(S, Head(members), "NAME")>> \o entry_names(S, Tail(members))

\* fs_readdir returning after the two entries that always exist
readdir_body_dots_only(S, path) ==
    LET inode == find_inode(S, path) IN
    IF inode = SEGV THEN Crash(S)
    ELSE Res(S, 0, inode, <<DOT, DOTDOT>>, ZeroStat)

readdir_body(S, path) ==
    LET inode == find_inode(S, path) IN
    IF inode = SEGV THEN Crash(S)
    ELSE IF inode = NOT_FOUND THEN Res(S, 0, inode, <<DOT, DOTDOT>>, ZeroStat)
    ELSE IF NilName(S, inode) THEN Crash(S)
    ELSE Res(S, 0, inode, <<DOT, DOTDOT>> \o entry_names(S, S.DIRENT[inode]), ZeroStat)

\* a | b on the bits of two non-negative numbers
RECURSIVE BitOr(_, _)
BitOr(a, b) ==
    IF a = 0 THEN b
    ELSE IF b = 0 THEN a
    ELSE 2 * BitOr(a \div 2, b \div 2) + (IF a % 2 = 1 \/ b % 2 = 1 THEN 1 ELSE 0)

\* what reply->element[6] of a six-element reply turns out to be: a null
\* pointer, a pointer to a string reply, or a pointer that cannot be read
Slot6 == {"null", "string", "fault"}

\* 0755
RootMode == Octal(7, 5, 5)

\* the uid and gid of the process, which main requires to be root
ProcessUid == 0
ProcessGid == 0

\* the first MGET: element[0..5] are CTIME ATIME MTIME GID UID LINK
getattr_first(S, inode, slot6) ==
    LET e == <<S.INODE[inode]["CTIME"], S.INODE[inode]["ATIME"],
               S.INODE[inode]["MTIME"], S.INODE[inode]["GID"],
               S.INODE[inode]["UID"], S.INODE[inode]["LINK"]>>
        \* element[k]->str of a nil element is a null pointer
        bad == \/ (e[5] # Nil /\ e[4] = Nil)
               \/ (e[6] # Nil /\ e[5] = Nil)
               \/ (slot6 = "string" /\ e[6] = Nil)
               \/ slot6 = "fault"
        st1 == [ZeroStat EXCEPT
                  !.st_ctime = IF e[1] # Nil THEN atoi(e[1][1]) ELSE @,
                  !.st_atime = IF e[2] # Nil THEN atoi(e[2][1]) ELSE @,
                  !.st_mtime = IF e[3] # Nil THEN atoi(e[3][1]) ELSE @,
                  !.st_gid = IF e[4] # Nil THEN atoi(e[4][1]) ELSE @,
                  !.st_uid = IF e[5] # Nil THEN atoi(e[4][1]) ELSE @,
                  !.st_nlink = IF e[6] # Nil THEN atoi(e[5][1]) ELSE @]
    IN  IF bad THEN [ok |-> FALSE, st |-> ZeroStat]
        ELSE [ok |-> TRUE,
              st |-> IF slot6 = "string"
                     THEN [st1 EXCEPT !.st_ctime = atoi(e[6][1])] ELSE st1]

\* the second MGET: TYPE MODE SIZE
getattr_second(S, inode, st) ==
    LET type == S.INODE[inode]["TYPE"]
        mode == S.INODE[inode]["MODE"]
        size == S.INODE[inode]["SIZE"]
        st1 == IF mode # Nil THEN [st EXCEPT !.st_mode = atoi(mode[1])] ELSE st
    IN  IF type = Nil THEN st
        ELSE IF type = Val("DIR")
             THEN [st1 EXCEPT !.st_mode = BitOr(@, S_IFDIR)]
        ELSE IF type = Val("LINK")
             THEN [st1 EXCEPT !.st_mode = BitOr(@, S_IFLNK), !.st_nlink = 1,
                              !.st_size = 0]
        ELSE IF type = Val("FILE")
             THEN IF size # Nil THEN [st1 EXCEPT !.st_size = atoi(size[1])] ELSE st1
        ELSE st1

getattr_body(S, path, t, slot6) ==
    LET inode == find_inode(S, path)
        first == getattr_first(S, inode, slot6)
    IN  IF path = RootPath
        THEN Res(S, 0, ROOT, <<>>,
                 [ZeroStat EXCEPT !.st_atime = t, !.st_mtime = t, !.st_ctime = t,
                                  !.st_uid = ProcessUid, !.st_gid = ProcessGid,
                                  !.st_mode = BitOr(S_IFDIR, RootMode),
                                  !.st_nlink = 1])
        ELSE IF inode = SEGV THEN Crash(S)
        ELSE IF inode = NOT_FOUND THEN Ret(S, -ENOENT)
        ELSE IF ~first.ok THEN Crash(S)
        ELSE Res(S, 0, inode, <<>>, getattr_second(S, inode, first.st))

-----------------------------------------------------------------------------
(* The handlers as actions *)

NoArgs == [none |-> 0]

NoCall ==
    [op |-> "none", path |-> <<>>, args |-> NoArgs, ret |-> 0, ino |-> 0,
     out |-> <<>>, stbuf |-> ZeroStat, alive |-> FALSE, locks |-> 0, mutex |-> 0]

\* the bridge still has calls to make and the process has not died
Running == steps > 0 /\ last.ret # SEGV

\* one call of a handler: R is what its body computed
Step(op, path, args, R) ==
    /\ Running
    /\ redis' = R.redis
    /\ last' = [op |-> op, path |-> path, args |-> args, ret |-> R.ret,
                ino |-> R.ino, out |-> R.out, stbuf |-> R.stbuf,
                alive |-> R.alive, locks |-> R.locks, mutex |-> R.mutex]
    /\ steps' = steps - 1
    /\ called' = IF R.ret >= 0 THEN called \cup {op} ELSE called
    /\ UNCHANGED <<read_only, fast, now, threads, lock>>

\* a handler call in a run that does not follow the replies of the connection
Do(op, path, args, R) ==
    /\ Step(op, path, args, R)
    /\ UNCHANGED conn

\* the positions at which SADD can put a new member of the directory at dirpath
Positions(S, dirpath) ==
    LET d == find_inode(S, dirpath) IN
    IF read_only \/ d = SEGV THEN {0} ELSE 0 .. Len(S.DIRENT[d])

\* the inode counter is capped so that the model stays finite
CanAllocate == read_only \/ redis.GLOBAL_INODE < MaxInode

fs_readdir(path) ==
    Do("readdir", path, NoArgs, readdir_body(redis, path))

fs_getattr(path, slot6) ==
    Do("getattr", path, NoArgs, getattr_body(redis, path, now, slot6))

\* fs_mkdir without its test of _g_read_only
fs_mkdir_unguarded(path, mode, uid, gid, pos) ==
    /\ CanAllocate
    /\ Do("mkdir", path, [mode |-> mode, uid |-> uid, gid |-> gid],
          mkdir_body(redis, path, mode, uid, gid, now, pos))

fs_mkdir(path, mode, uid, gid, pos) ==
    /\ CanAllocate
    /\ Do("mkdir", path, [mode |-> mode, uid |-> uid, gid |-> gid],
          IF read_only THEN Refuse(redis)
          ELSE mkdir_body(redis, path, mode, uid, gid, now, pos))

fs_rmdir(path) ==
    Do("rmdir", path, NoArgs,
       IF read_only THEN Refuse(redis) ELSE rmdir_body(redis, path))

fs_write(path, buf, offset) ==
    Do("write", path, [buf |-> buf, size |-> Len(buf), offset |-> offset],
       IF read_only THEN Refuse(redis)
       ELSE write_body(redis, path, buf, offset, now))

fs_read(path, size, offset) ==
    Do("read", path, [size |-> size, offset |-> offset],
       read_body(redis, path, size, offset))

fs_symlink(target, path, uid, gid, pos) ==
    /\ CanAllocate
    /\ Do("symlink", path, [target |-> target, uid |-> uid, gid |-> gid],
          IF read_only THEN Refuse(redis)
          ELSE symlink_body(redis, target, path, uid, gid, now, pos))

fs_readlink(path) ==
    Do("readlink", path, NoArgs, readlink_body(redis, path))

fs_open(path) ==
    Do("open", path, NoArgs,
       IF fast THEN Skip(redis) ELSE atime_body(redis, path, now))

fs_create(path, mode, uid, gid, pos) ==
    /\ CanAllocate
    /\ Do("create", path, [mode |-> mode, uid |-> uid, gid |-> gid],
          IF read_only THEN Refuse(redis)
          ELSE create_body(redis, path, mode, uid, gid, now, pos))

fs_chown(path, uid, gid) ==
    Do("chown", path, [uid |-> uid, gid |-> gid],
       IF read_only THEN Refuse(redis)
       ELSE chown_body(redis, path, uid, gid, now))

fs_chmod(path, mode) ==
    Do("chmod", path, [mode |-> mode],
       IF read_only THEN Refuse(redis)
       ELSE chmod_body(redis, path, mode, now))

fs_utimens(path, atime, mtime) ==
    Do("utimens", path, [atime |-> atime, mtime |-> mtime],
       IF read_only THEN Refuse(redis)
       ELSE utimens_body(redis, path, atime, mtime))

fs_access(path) ==
    Do("access", path, NoArgs,
       IF fast THEN Skip(redis) ELSE atime_body(redis, path, now))

fs_unlink(path) ==
    Do("unlink", path, NoArgs,
       IF read_only THEN Refuse(redis) ELSE unlink_body(redis, path))

fs_rename(old, path, pos) ==
    Do("rename", old, [new |-> path],
       IF read_only THEN Refuse(redis) ELSE rename_body(redis, old, path, pos))

fs_truncate(path) ==
    Do("truncate", path, NoArgs,
       IF read_only THEN Refuse(redis) ELSE truncate_body(redis, path, now))

\* time passes between two calls
Tick ==
    /\ now < MaxTime
    /\ now' = now + 1
    /\ UNCHANGED <<redis, read_only, fast, steps, last, called, threads, lock, conn>>

-----------------------------------------------------------------------------
(* The arguments the handlers are called with *)

Names == {"a", "b"}
Paths1 == { <<SLASH, n>> : n \in Names }
Paths2 == { <<SLASH, "a", SLASH, n>> : n \in Names }
\* absolute paths as the kernel bridge hands them over
Paths == {RootPath} \cup Paths1 \cup Paths2

\* 0644
FileMode == Octal(6, 4, 4)
\* the modes create is called with: the kernel hands over the permission bits
\* together with the regular-file bit
Modes == { BitOr(S_IFREG, FileMode), BitOr(S_IFREG, Octal(6, 0, 0)) }
\* 0755 for directories
DirMode == Octal(7, 5, 5)

\* credentials of the caller (fuse_get_context): root, and users whose uid
\* and gid differ
Creds == { <<0, 0>>, <<1, 2>>, <<3, 1>> }

-----------------------------------------------------------------------------
(* Namespace operations: the handlers that create, remove and move entries *)

\* a store an earlier mount left behind: the directory /a holding the file /a/a
TreeStore ==
    LET S1 == mkdir_body(EmptyStore, <<SLASH, "a">>, DirMode, 0, 0, 1, 0).redis
    IN  create_body(S1, <<SLASH, "a", SLASH, "a">>, FileMode, 0, 0, 1, 0).redis

InitNS ==
    /\ redis \in {EmptyStore, TreeStore}
    /\ read_only = FALSE
    /\ fast = FALSE
    /\ now = 1
    /\ steps = MaxSteps
    /\ last = NoCall
    /\ called = {}
    /\ threads = NoThreads
    /\ lock = 0
    /\ conn = Connected

NextNS ==
    \/ /\ Running
       /\ \E p \in Paths : \E pos \in Positions(redis, get_parent(p)) :
             fs_create(p, FileMode, 0, 0, pos)
    \/ /\ Running
       /\ \E p \in Paths : \E pos \in Positions(redis, get_parent(p)) :
             fs_mkdir(p, DirMode, 0, 0, pos)
    \/ \E p \in Paths : fs_unlink(p)
    \/ \E p \in Paths : fs_rmdir(p)
    \/ /\ Running
       /\ \E old \in Paths, new \in Paths :
             \E pos \in Positions(redis, get_parent(new)) : fs_rename(old, new, pos)

SpecNS == InitNS /\ [][NextNS]_vars

-----------------------------------------------------------------------------
(* Claims *)

Resolves(S, path) == find_inode(S, path) \notin {NOT_FOUND, SEGV}

NoKeys(S, i) == \A a \in AttrNames : ~Exists(S, i, a)

\* the last call allocated inode last.ino under a parent that resolves
Allocated(op) ==
    /\ last.op = op
    /\ last.ret = 0
    /\ Resolves(redis, get_parent(last.path))

\* this step is a call of op on the path of the call before it
ThenOn(op) ==
    /\ last'.op = op
    /\ last'.path = last.path

Gone(S, i, path) ==
    /\ NoKeys(S, i)
    /\ i \notin Members(S, find_inode(S, get_parent(path)))

\* C1: after create(p) then unlink(p), and after mkdir(p) then rmdir(p), with
\* the parent of p resolving, no attribute key of the inode the first call
\* allocated exists and the parent's directory set does not hold its number
\* (stated for the paths below the root, the ones an entry can be made at).
C1_CreatedThenRemovedIsGone ==
    [][ /\ (Allocated("create") /\ last.path # RootPath /\ ThenOn("unlink"))
           => Gone(redis', last.ino, last.path)
        /\ (Allocated("mkdir") /\ last.path # RootPath /\ ThenOn("rmdir"))
           => Gone(redis', last.ino, last.path)
      ]_vars

\* the last call was rename(old, new) of two different paths below the root,
\* and it returned 0; last.ino is the inode old resolved to
Renamed ==
    /\ last.op = "rename"
    /\ last.ret = 0
    /\ last.path # RootPath
    /\ last.args.new # RootPath
    /\ last.args.new # last.path

\* C3: after rename(old, new) returned 0, old does not resolve and new resolves
\* to the inode old resolved to (stated for two different paths below the root).
C3_RenameMovesThePath ==
    Renamed =>
        /\ find_inode(redis, last.path) = NOT_FOUND
        /\ find_inode(redis, last.args.new) = last.ino

Child(path, n) == path \o <<SLASH, n>>

\* path b is a itself or lies below a
IsPrefix(a, b) ==
    /\ Len(a) <= Len(b)
    /\ SubSeq(b, 1, Len(a)) = a
    /\ Len(a) = Len(b) \/ b[Len(a) + 1] = SLASH

\* this step is rename(d, d2) of a directory, between two different paths
\* below the root with d2 not inside d, and it returned 0
RenamesDir ==
    /\ last'.op = "rename"
    /\ last'.ret = 0
    /\ last'.path # RootPath
    /\ last'.args.new # RootPath
    /\ ~IsPrefix(last'.path, last'.args.new)
    /\ redis.INODE[last'.ino]["TYPE"] = Val("DIR")

\* every entry of d is found again under d2, with all its keys as they were
SubtreeKept(d, d2) ==
    \A n \in Names :
        LET j == find_inode(redis, Child(d, n)) IN
        (j \notin {NOT_FOUND, SEGV}) =>
            /\ find_inode(redis', Child(d2, n)) = j
            /\ redis'.INODE[j] = redis.INODE[j]

\* rename wrote the NAME of inode i and the sets of the two parents, no more
RenameFrame(d, d2, i) ==
    /\ \A k \in InodeIds \ {i} : redis'.INODE[k] = redis.INODE[k]
    /\ \A a \in AttrNames \ {"NAME"} : redis'.INODE[i][a] = redis.INODE[i][a]
    /\ \A k \in InodeIds \ {find_inode(redis, get_parent(d)),
                            find_inode(redis, get_parent(d2))} :
          redis'.DIRENT[k] = redis.DIRENT[k]
    /\ redis'.GLOBAL_INODE = redis.GLOBAL_INODE

\* C4: renaming a directory d to d2 keeps its subtree: every path d/x that
\* resolved to inode j resolves as d2/x to j afterwards, the keys of j are
\* unchanged, and rename writes only the NAME of the renamed inode and the
\* directory sets of the two parents (stated for a d2 that is not inside d).
C4_RenameKeepsSubtree ==
    [][ RenamesDir =>
           /\ SubtreeKept(last'.path, last'.args.new)
           /\ RenameFrame(last'.path, last'.args.new, last'.ino) ]_vars

-----------------------------------------------------------------------------
(* The stress test of tests/fstest: from a flushed store, entries with names
   that are not in use are created, written, opened, moved and removed *)

StressPaths == Paths1 \cup Paths2 \cup { <<SLASH, "b", SLASH, "a">> }
StressData == <<"x">>

IsType(S, path, type) ==
    Resolves(S, path) /\ S.INODE[find_inode(S, path)]["TYPE"] = Val(type)

\* the name is free and the directory it goes into exists
Fresh(S, path) ==
    /\ find_inode(S, path) = NOT_FOUND
    /\ path # RootPath
    /\ get_parent(path) = RootPath \/ IsType(S, get_parent(path), "DIR")

SizeOf(S, path) == atoi(Get(S, find_inode(S, path), "SIZE"))

InitStress ==
    /\ redis = EmptyStore
    /\ read_only = FALSE
    /\ fast = FALSE
    /\ now = 1
    /\ steps = StressSteps
    /\ last = NoCall
    /\ called = {}
    /\ threads = NoThreads
    /\ lock = 0
    /\ conn = Connected

StressCreate ==
    /\ Running
    /\ \E p \in StressPaths : \E pos \in Positions(redis, get_parent(p)) :
          Fresh(redis, p) /\ fs_create(p, FileMode, 0, 0, pos)

StressMkdir ==
    /\ Running
    /\ \E p \in StressPaths : \E pos \in Positions(redis, get_parent(p)) :
          Fresh(redis, p) /\ fs_mkdir(p, DirMode, 0, 0, pos)

\* a file is written front to back
StressOpen ==
    /\ Running
    /\ \E p \in StressPaths : IsType(redis, p, "FILE") /\ fs_open(p)

StressWrite ==
    /\ Running
    /\ \E p \in StressPaths :
          IsType(redis, p, "FILE") /\ fs_write(p, StressData, SizeOf(redis, p))

StressRename ==
    /\ Running
    /\ \E old \in StressPaths, new \in StressPaths :
          \E pos \in Positions(redis, get_parent(new)) :
             /\ Resolves(redis, old)
             /\ Fresh(redis, new)
             /\ ~IsPrefix(old, new)
             /\ fs_rename(old, new, pos)

StressUnlink ==
    /\ Running
    /\ \E p \in StressPaths : IsType(redis, p, "FILE") /\ fs_unlink(p)

\* rm -rf removes a directory after what it holds; an earlier rmdir is refused
StressRmdir ==
    /\ Running
    /\ \E p \in StressPaths : IsType(redis, p, "DIR") /\ fs_rmdir(p)

NextStress ==
    \/ StressCreate
    \/ StressMkdir
    \/ StressOpen
    \/ StressWrite
    \/ StressRename
    \/ StressUnlink
    \/ StressRmdir

SpecStress == InitStress /\ [][NextStress]_vars

\* the keys redis-cli keys lists: attribute keys that exist, directory sets
\* that have a member, and the counter once it was incremented
Keys(S) ==
    { <<"INODE", ia[1], ia[2]>> :
         ia \in { x \in InodeIds \X AttrNames : Exists(S, x[1], x[2]) } }
    \cup { <<"DIRENT", d, "">> : d \in { e \in InodeIds : S.DIRENT[e] # <<>> } }
    \cup (IF S.GLOBAL_INODE > 0 THEN { <<"GLOBAL", 0, "INODE">> } ELSE {})

\* C2: from an empty store, once every file that was created (and written) has
\* been unlinked, and once a directory tree that was created and renamed has
\* been removed bottom-up, the only key left is the global inode counter.
C2_OnlyTheCounterIsLeft ==
    (last.op # "none" /\ redis.DIRENT[ROOT] = <<>>)
       => Keys(redis) = { <<"GLOBAL", 0, "INODE">> }

\* a written file and a renamed tree have come and gone
C2_Witness ==
    /\ redis.DIRENT[ROOT] = <<>>
    /\ called = {"create", "write", "unlink", "mkdir", "rename", "rmdir"}

-----------------------------------------------------------------------------
(* A mount with --read-only over a store that holds entries *)

\* the directory /a holding the file /a/a with two bytes, and the link /b
FullStore ==
    LET S1 == write_body(TreeStore, <<SLASH, "a", SLASH, "a">>, <<"x", "y">>, 0, 1).redis
    IN  symlink_body(S1, <<"t">>, <<SLASH, "b">>, 0, 0, 1, 0).redis

Bufs == { <<"x">> }
Offsets == {0, 1}
Targets == { <<"t">> }
Times == 1 .. MaxTime

InitRO ==
    /\ redis \in {TreeStore, FullStore}
    /\ read_only = TRUE
    /\ fast \in BOOLEAN
    /\ now = 1
    /\ steps = RoSteps
    /\ last = NoCall
    /\ called = {}
    /\ threads = NoThreads
    /\ lock = 0
    /\ conn = Connected

NextRO ==
    \/ \E p \in Paths : fs_mkdir(p, DirMode, 1, 2, 0)
    \/ \E p \in Paths : fs_rmdir(p)
    \/ \E p \in Paths : fs_create(p, FileMode, 1, 2, 0)
    \/ \E p \in Paths : fs_unlink(p)
    \/ \E p \in Paths, b \in Bufs, o \in Offsets : fs_write(p, b, o)
    \/ \E p \in Paths : fs_truncate(p)
    \/ \E p \in Paths, t \in Targets : fs_symlink(t, p, 1, 2, 0)
    \/ \E p \in Paths : fs_chmod(p, FileMode)
    \/ \E p \in Paths : fs_chown(p, 1, 2)
    \/ \E p \in Paths, t \in Times : fs_utimens(p, t, t)
    \/ \E old \in Paths, new \in Paths : fs_rename(old, new, 0)
    \/ \E p \in Paths : fs_open(p)
    \/ \E p \in Paths : fs_access(p)
    \/ \E p \in Paths : \E s6 \in Slot6 : fs_getattr(p, s6)
    \/ \E p \in Paths : fs_readdir(p)
    \/ \E p \in Paths, o \in Offsets : fs_read(p, 2, o)
    \/ \E p \in Paths : fs_readlink(p)
    \/ Tick

SpecRO == InitRO /\ [][NextRO]_vars

Mutators ==
    {"mkdir", "rmdir", "create", "unlink", "write", "truncate", "symlink",
     "chmod", "chown", "utimens", "rename"}

\* C5: with the read-only flag set, each of mkdir, rmdir, create, unlink, write,
\* truncate, symlink, chmod, chown, utimens and rename returns -EPERM whatever
\* its arguments, has issued no store command (redis_alive has not run, the
\* store and its inode counter are as before) and has released the lock.
C5_ReadOnlyRefuses ==
    [][ (read_only /\ last' # last /\ last'.op \in Mutators) =>
           /\ last'.ret = -EPERM
           /\ ~last'.alive
           /\ redis' = redis
           /\ last'.mutex = 0 ]_vars

\* every one of the eleven has been refused on a path that resolves
C5_Witness ==
    /\ read_only
    /\ last.op = "rename"
    /\ last.ret = -EPERM
    /\ Resolves(redis, last.path)
    /\ called = {}

\* C6: with the read-only flag set, no sequence of handler calls (open and
\* access with the fast option off included) changes the store.
C6_ReadOnlyStoreUnchanged ==
    [][ read_only => redis' = redis ]_vars

-----------------------------------------------------------------------------
(* File contents: write, read and truncate on a file that exists *)

DataPaths == Paths1
DataBufs == { <<>>, <<"x">>, <<"y">>, <<"x", "y">> }

\* the file /a as create leaves it, and the file /a of user 1 holding "yy"
NewFileStore == create_body(EmptyStore, <<SLASH, "a">>, FileMode, 0, 0, 1, 0).redis
OldFileStore ==
    LET S1 == create_body(EmptyStore, <<SLASH, "a">>, FileMode, 1, 1, 1, 0).redis
    IN  write_body(S1, <<SLASH, "a">>, <<"y", "y">>, 0, 1).redis

InitData ==
    /\ redis \in {NewFileStore, OldFileStore}
    /\ read_only = FALSE
    /\ fast \in BOOLEAN
    /\ now = 1
    /\ steps = DataSteps
    /\ last = NoCall
    /\ called = {}
    /\ threads = NoThreads
    /\ lock = 0
    /\ conn = Connected

NextData ==
    \/ \E p \in DataPaths, b \in DataBufs, o \in 0 .. MaxOffset : fs_write(p, b, o)
    \/ \E p \in DataPaths, n \in 0 .. MaxSize, o \in 0 .. MaxOffset : fs_read(p, n, o)
    \/ \E p \in DataPaths : fs_truncate(p)

SpecData == InitData /\ [][NextData]_vars

\* the call before this step was write(p, b, |b|, 0) on a file that exists
WroteAtZero ==
    /\ last.op = "write"
    /\ last.args.offset = 0
    /\ IsType(redis, last.path, "FILE")

\* C7: for an existing file p and bytes b, write(p, b, |b|, 0) returns |b| and
\* the read(p, |b|, 0) that follows returns |b| and yields exactly b, whatever
\* the file held before.
C7_WriteThenRead ==
    [][ ( /\ WroteAtZero
          /\ last'.op = "read"
          /\ last'.path = last.path
          /\ last'.args = [size |-> Len(last.args.buf), offset |-> 0] )
        => /\ last.ret = Len(last.args.buf)
           /\ last'.ret = Len(last.args.buf)
           /\ last'.out = last.args.buf ]_vars

\* the file of user 1, which held "yy", was written once and then read, and
\* the read gave "xy"
C7_Witness ==
    /\ steps = DataSteps - 2
    /\ called = {"write", "read"}
    /\ last.op = "read"
    /\ last.args = [size |-> 2, offset |-> 0]
    /\ last.out = <<"x", "y">>
    /\ Get(redis, last.ino, "UID") = Fmt_d(1)

\* C8: for an existing file p, write(p, b1, |b1|, 0) with b1 not empty, then
\* write(p, b2, |b2|, |b1|), then read(p, |b1|+|b2|, 0) yields b1 followed by
\* b2, with the fast option set or not, and SIZE is |b1|+|b2|.
C8_AppendThenRead ==
    [][ ( /\ WroteAtZero
          /\ last.args.buf # <<>>
          /\ last'.op = "write"
          /\ last'.path = last.path
          /\ last'.args.offset = Len(last.args.buf) )
        => LET b1 == last.args.buf
               b2 == last'.args.buf
               R == read_body(redis', last.path, Len(b1) + Len(b2), 0)
           IN  /\ last'.ret = Len(b2)
               /\ R.ret = Len(b1) + Len(b2)
               /\ R.out = b1 \o b2
               /\ Get(redis', last'.ino, "SIZE") = Fmt_d(Len(b1) + Len(b2)) ]_vars

\* under --fast the file of user 1, which held "yy", holds "xy" after a write
\* of "x" and a write of "y" at offset 1
C8_Witness ==
    /\ fast
    /\ steps = DataSteps - 2
    /\ called = {"write"}
    /\ last.op = "write"
    /\ last.args = [buf |-> <<"y">>, size |-> 1, offset |-> 1]
    /\ Get(redis, last.ino, "DATA") = <<"x", "y">>
    /\ Get(redis, last.ino, "UID") = Fmt_d(1)

-----------------------------------------------------------------------------
(* Attributes: what getattr reports of an entry that was just created *)

InitAttr ==
    /\ redis \in {EmptyStore, TreeStore}
    /\ read_only = FALSE
    /\ fast = FALSE
    /\ now = 1
    /\ steps = AttrSteps
    /\ last = NoCall
    /\ called = {}
    /\ threads = NoThreads
    /\ lock = 0
    /\ conn = Connected

NextAttr ==
    \/ /\ Running
       /\ \E p \in Paths, m \in Modes, c \in Creds :
             \E pos \in Positions(redis, get_parent(p)) :
                fs_create(p, m, c[1], c[2], pos)
    \/ /\ Running
       /\ \E p \in Paths, c \in Creds :
             \E pos \in Positions(redis, get_parent(p)) :
                fs_mkdir(p, DirMode, c[1], c[2], pos)
    \/ \E p \in Paths, s6 \in Slot6 : fs_getattr(p, s6)
    \/ Tick

SpecAttr == InitAttr /\ [][NextAttr]_vars

\* the file-type bits and the permission bits of a mode
TypeBits(m) == (m \div 4096) * 4096
PermBits(m) == m % 4096

\* the call before this step was create(path, mode) on a path below the root
\* whose parent resolves, and the new inode is the only entry of that name
CreatedFresh ==
    /\ last.op = "create"
    /\ last.ret = 0
    /\ last.path # RootPath
    /\ Resolves(redis, get_parent(last.path))
    /\ { m \in Members(redis, find_inode(redis, get_parent(last.path))) :
            redis.INODE[m]["NAME"] = Val(get_basename(last.path)) } = {last.ino}

\* this step is getattr of the path that was just created
ThenGetattr ==
    /\ last'.op = "getattr"
    /\ last'.path = last.path

\* C9: getattr after create(path, mode) on a fresh path returns 0 and reports
\* a regular file (S_IFREG in st_mode) with the permission bits of mode and
\* size 0.
C9_GetattrAfterCreate ==
    [][ (CreatedFresh /\ ThenGetattr) =>
           /\ last'.ret = 0
           /\ TypeBits(last'.stbuf.st_mode) = S_IFREG
           /\ PermBits(last'.stbuf.st_mode) = PermBits(last.args.mode)
           /\ last'.stbuf.st_size = 0 ]_vars

\* C10: when getattr after create by a caller (uid, gid) returns, it reports
\* st_uid = uid, st_gid = gid and link count 1, whatever uid and gid are.
C10_GetattrOwnerAfterCreate ==
    [][ (CreatedFresh /\ ThenGetattr /\ last'.ret = 0) =>
           /\ last'.stbuf.st_uid = last.args.uid
           /\ last'.stbuf.st_gid = last.args.gid
           /\ last'.stbuf.st_nlink = 1 ]_vars

\* the same with the sixth reply slot never a fault: what C9 says holds
\* whenever getattr comes back
C9_WhenGetattrReturns ==
    [][ (CreatedFresh /\ ThenGetattr /\ last'.ret # SEGV) =>
           /\ last'.ret = 0
           /\ TypeBits(last'.stbuf.st_mode) = S_IFREG
           /\ PermBits(last'.stbuf.st_mode) = PermBits(last.args.mode)
           /\ last'.stbuf.st_size = 0 ]_vars

-----------------------------------------------------------------------------
(* Directories: the namespace handlers together with readdir *)

InitDir ==
    /\ redis \in {EmptyStore, TreeStore}
    /\ read_only = FALSE
    /\ fast = FALSE
    /\ now = 1
    /\ steps = DirSteps
    /\ last = NoCall
    /\ called = {}
    /\ threads = NoThreads
    /\ lock = 0
    /\ conn = Connected

NextDir ==
    \/ NextNS
    \/ \E p \in Paths : fs_readdir(p)

SpecDir == InitDir /\ [][NextDir]_vars

\* how often name occurs in what readdir emitted
RECURSIVE Occurs(_, _)
Occurs(names, name) ==
    IF names = <<>> THEN 0
    ELSE (IF Head(names) = name THEN 1 ELSE 0) + Occurs(Tail(names), name)

\* the call before this step was mkdir of a path below the root whose parent
\* resolves, and the new inode is the only entry of that name: the path did
\* not resolve before
MadeDirFresh ==
    /\ last.op = "mkdir"
    /\ last.ret = 0
    /\ last.path # RootPath
    /\ Resolves(redis, get_parent(last.path))
    /\ { m \in Members(redis, find_inode(redis, get_parent(last.path))) :
            redis.INODE[m]["NAME"] = Val(get_basename(last.path)) } = {last.ino}

\* C11: readdir(parent) after mkdir of a path that did not resolve emits "."
\* and ".." and the new basename exactly once; readdir of a path that does not
\* resolve returns 0 and emits only "." and "..".
C11_ReaddirAfterMkdir ==
    [][ /\ ( /\ MadeDirFresh
             /\ last'.op = "readdir"
             /\ last'.path = get_parent(last.path) )
           => /\ last'.ret = 0
              /\ Occurs(last'.out, DOT) = 1
              /\ Occurs(last'.out, DOTDOT) = 1
              /\ Occurs(last'.out, get_basename(last.path)) = 1
        /\ ( /\ last' # last
             /\ last'.op = "readdir"
             /\ find_inode(redis, last'.path) = NOT_FOUND )
           => /\ last'.ret = 0
              /\ last'.out = <<DOT, DOTDOT>>
      ]_vars

\* from the empty store, mkdir("/a") and then readdir("/") listing it
C11_Witness ==
    /\ steps = DirSteps - 2
    /\ redis.GLOBAL_INODE = 1
    /\ redis.INODE[1]["TYPE"] = Val("DIR")
    /\ last.op = "readdir"
    /\ last.path = RootPath
    /\ last.out = <<DOT, DOTDOT, <<"a">>>>

-----------------------------------------------------------------------------
(* Symbolic links: symlink and readlink among the handlers that make and
   remove entries *)

LinkTargets == Targets \cup { <<SLASH, "a">> }

InitLink ==
    /\ redis \in {EmptyStore, TreeStore}
    /\ read_only = FALSE
    /\ fast = FALSE
    /\ now = 1
    /\ steps = LinkSteps
    /\ last = NoCall
    /\ called = {}
    /\ threads = NoThreads
    /\ lock = 0
    /\ conn = Connected

NextLink ==
    \/ /\ Running
       /\ \E t \in LinkTargets, p \in Paths :
             \E pos \in Positions(redis, get_parent(p)) : fs_symlink(t, p, 0, 0, pos)
    \/ \E p \in Paths : fs_readlink(p)
    \/ /\ Running
       /\ \E p \in Paths : \E pos \in Positions(redis, get_parent(p)) :
             fs_create(p, FileMode, 0, 0, pos)
    \/ \E p \in Paths : fs_unlink(p)

SpecLink == InitLink /\ [][NextLink]_vars

\* the call before this step was symlink(t, p) with p below the root and the
\* parent of p resolving
MadeLink ==
    /\ last.op = "symlink"
    /\ last.ret = 0
    /\ last.path # RootPath
    /\ Resolves(redis, get_parent(last.path))

\* C12: the readlink(p) that follows symlink(t, p) returns 0 and yields t;
\* readlink of an entry that exists and has no TARGET returns -ENOENT.
C12_ReadlinkAfterSymlink ==
    [][ /\ ( /\ MadeLink
             /\ last'.op = "readlink"
             /\ last'.path = last.path )
           => /\ last'.ret = 0
              /\ last'.out = last.args.target
        /\ ( /\ last' # last
             /\ last'.op = "readlink"
             /\ Resolves(redis, last'.path)
             /\ ~Exists(redis, find_inode(redis, last'.path), "TARGET") )
           => last'.ret = -ENOENT
      ]_vars

\* this step is read on a file that exists and has a SIZE
ReadOfFile ==
    /\ last' # last
    /\ last'.op = "read"
    /\ IsType(redis, last'.path, "FILE")
    /\ Exists(redis, find_inode(redis, last'.path), "SIZE")

\* C17: read(path, size, offset) on an existing file with a stored SIZE
\* returns a count n that is not negative, at most size and at most the number
\* of bytes from offset to the end of the file (0 when offset >= SIZE), and the
\* n bytes it copied are DATA[offset .. offset+n-1]; this for every offset,
\* those behind the end of the file included.
C17_ReadReturnsRange ==
    [][ ReadOfFile =>
          LET inode == find_inode(redis, last'.path)
              sz == atoi(Get(redis, inode, "SIZE"))
              data == IF Exists(redis, inode, "DATA")
                      THEN Get(redis, inode, "DATA") ELSE <<>>
              offset == last'.args.offset
              n == last'.ret
          IN  /\ n >= 0
              /\ n <= last'.args.size
              /\ n <= (IF offset >= sz THEN 0 ELSE sz - offset)
              /\ last'.out = SubSeq(data, offset + 1, offset + n) ]_vars

-----------------------------------------------------------------------------
(* Removal of directories *)

\* the call before this step was create(p/q) inside a directory p, and this
\* step is rmdir(p)
RmdirAfterCreateInside ==
    /\ last.op = "create"
    /\ last.ret = 0
    /\ get_parent(last.path) # RootPath
    /\ IsType(redis, get_parent(last.path), "DIR")
    /\ last'.op = "rmdir"
    /\ last'.path = get_parent(last.path)

DirWithChildren(S, i) ==
    /\ S.INODE[i]["TYPE"] = Val("DIR")
    /\ Members(S, i) # {}

\* C14: no handler removes a directory inode whose directory set is not
\* empty: rmdir or unlink aimed at such a directory is refused and leaves the
\* store unchanged.
C14_NonEmptyDirNotRemoved ==
    [][ \A i \in 1..MaxInode :
          DirWithChildren(redis, i) =>
             /\ Exists(redis', i, "TYPE")
             /\ (last'.op \in {"rmdir", "unlink"} /\ find_inode(redis, last'.path) = i)
                   => (last'.ret < 0 /\ redis' = redis) ]_vars

\* this step is rmdir of a path that is not an existing directory: it
\* resolves to a file or a link, or does not resolve, or is the root
RmdirOfNoDirectory ==
    /\ last' # last
    /\ last'.op = "rmdir"
    /\ find_inode(redis, last'.path) # SEGV
    /\ ~IsType(redis, last'.path, "DIR")

\* C16: rmdir(path) returns -ENOENT and leaves the store unchanged whenever
\* path is not an existing directory: it resolves to a FILE or LINK, does not
\* resolve at all, or is the root.
C16_RmdirOfNoDirectory ==
    [][ RmdirOfNoDirectory => (last'.ret = -ENOENT /\ redis' = redis) ]_vars

-----------------------------------------------------------------------------
(* A mount with any options: every handler, read-only or not, fast or not *)

MountSteps == 2

InitMount ==
    /\ redis \in {EmptyStore, TreeStore, FullStore}
    /\ read_only \in BOOLEAN
    /\ fast \in BOOLEAN
    /\ now = 1
    /\ steps = MountSteps
    /\ last = NoCall
    /\ called = {}
    /\ threads = NoThreads
    /\ lock = 0
    /\ conn = Connected

NextMount == NextRO

SpecMount == InitMount /\ [][NextMount]_vars

NotFoundOps ==
    {"getattr", "read", "readlink", "chmod", "chown", "utimens", "truncate",
     "unlink", "rename"}

\* this step is one of the nine handlers, on a path (for rename: the source
\* path) that does not resolve
Missed ==
    /\ last' # last
    /\ last'.op \in NotFoundOps
    /\ find_inode(redis, last'.path) = NOT_FOUND

\* C15: each of getattr, read, readlink, chmod, chown, utimens, truncate,
\* unlink and rename, called with a path that does not resolve, returns
\* -ENOENT, leaves every key and set unchanged, and releases the lock.
C15_NotFound ==
    [][ Missed =>
           /\ last'.ret = -ENOENT
           /\ redis' = redis
           /\ last'.mutex = 0 ]_vars

\* C15 as the code has it: the same, except that on a read-only mount the six
\* mutating handlers among the nine return -EPERM before they resolve the path.
C15_NotFoundUnlessReadOnly ==
    [][ Missed =>
           /\ last'.ret = (IF read_only /\ last'.op \in Mutators
                           THEN -EPERM ELSE -ENOENT)
           /\ redis' = redis
           /\ last'.mutex = 0 ]_vars

\* a writable mount: chmod of a path that does not resolve has returned
\* -ENOENT after an earlier call that succeeded
C15_Witness ==
    /\ ~read_only
    /\ called # {}
    /\ last.op = "chmod"
    /\ find_inode(redis, last.path) = NOT_FOUND
    /\ last.ret = -ENOENT
    /\ last.mutex = 0

\* this step is open or access
OpenedOrAccessed ==
    /\ last' # last
    /\ last'.op \in {"open", "access"}

-----------------------------------------------------------------------------
(* The inode allocator, with an INCR that the store may answer with an error *)

EIO == 5
AllocSteps == 2

fs_mkdir_replied(path, mode, uid, gid, pos, incr) ==
    /\ CanAllocate
    /\ Do("mkdir", path, [mode |-> mode, uid |-> uid, gid |-> gid, incr |-> incr],
          IF read_only THEN Refuse(redis)
          ELSE mkdir_with(get_next_inode_replied(redis, incr),
                          path, mode, uid, gid, now, pos))

fs_create_replied(path, mode, uid, gid, pos, incr) ==
    /\ CanAllocate
    /\ Do("create", path, [mode |-> mode, uid |-> uid, gid |-> gid, incr |-> incr],
          IF read_only THEN Refuse(redis)
          ELSE create_with(redis, get_next_inode_replied(redis, incr),
                           path, mode, uid, gid, now, pos))

fs_symlink_replied(target, path, uid, gid, pos, incr) ==
    /\ CanAllocate
    /\ Do("symlink", path, [target |-> target, uid |-> uid, gid |-> gid, incr |-> incr],
          IF read_only THEN Refuse(redis)
          ELSE symlink_with(redis, get_next_inode_replied(redis, incr),
                            target, path, uid, gid, now, pos))

InitAlloc ==
    /\ redis \in {EmptyStore, TreeStore}
    /\ read_only = FALSE
    /\ fast = FALSE
    /\ now = 1
    /\ steps = AllocSteps
    /\ last = NoCall
    /\ called = {}
    /\ threads = NoThreads
    /\ lock = 0
    /\ conn = Connected

NextAlloc ==
    \/ /\ Running
       /\ \E p \in Paths, incr \in IncrReplies :
             \E pos \in Positions(redis, get_parent(p)) :
                fs_mkdir_replied(p, DirMode, 0, 0, pos, incr)
    \/ /\ Running
       /\ \E p \in Paths, incr \in IncrReplies :
             \E pos \in Positions(redis, get_parent(p)) :
                fs_create_replied(p, FileMode, 0, 0, pos, incr)
    \/ /\ Running
       /\ \E p \in Paths, t \in Targets, incr \in IncrReplies :
             \E pos \in Positions(redis, get_parent(p)) :
                fs_symlink_replied(t, p, 0, 0, pos, incr)
    \/ \E p \in Paths : fs_readdir(p)

SpecAlloc == InitAlloc /\ [][NextAlloc]_vars

\* this step is create, mkdir or symlink whose INCR was answered with an error,
\* so that get_next_inode returned -1
AllocationFailed ==
    /\ last' # last
    /\ last'.op \in {"create", "mkdir", "symlink"}
    /\ last'.path # RootPath
    /\ last'.args.incr = "error"

\* C18: when the inode allocator gets no integer and returns -1, the handler
\* aborts, returns -EIO and releases the lock; create, mkdir and symlink
\* never write an inode numbered -1.
C18_AllocationFailureIsEIO ==
    [][ AllocationFailed =>
           /\ last'.ret = -EIO
           /\ last'.mutex = 0
           /\ redis' = redis
           /\ NoKeys(redis', -1) ]_vars

-----------------------------------------------------------------------------
(* The path utilities as functions of their argument *)

MaxPathLen == 4
PathChars == {SLASH, "a", "."}

\* the inputs of TestSimpleParent
EtcSteve == <<SLASH, "e", "t", "c", SLASH, "s", "t", "e", "v", "e">>
EtcSlash == <<SLASH, "e", "t", "c", SLASH>>
EtcFdsfsteve == <<SLASH, "e", "t", "c", SLASH, "f", "d", "s", "f", "s", "t", "e", "v", "e">>
Etc == <<SLASH, "e", "t", "c">>

PathInputs ==
    UNION { [1 .. k -> PathChars] : k \in 0 .. MaxPathLen }
       \cup {EtcSteve, EtcSlash, EtcFdsfsteve}

\* the inputs of TestSimpleBasename and TestEmptyBasename
Steve == <<"s", "t", "e", "v", "e">>
SlashSteve == <<SLASH>> \o Steve
ManySlashesSteve == <<SLASH, "f", SLASH, SLASH, SLASH, SLASH>> \o Steve
EtcDotsSteveSteve ==
    Etc \o <<SLASH, ".", ".", SLASH, SLASH>> \o Steve \o <<SLASH>> \o Steve
DotSlashSteve == <<".", SLASH>> \o Steve
NoPath == <<"f", "s", "d", "f", "k", "l", "d", "s", "j", "f">>

BasenameInputs ==
    {SlashSteve, ManySlashesSteve, EtcDotsSteveSteve, DotSlashSteve, NoPath}

InitPath ==
    /\ redis = EmptyStore
    /\ read_only = FALSE
    /\ fast = FALSE
    /\ now = 1
    /\ steps = 1
    /\ last \in { [NoCall EXCEPT !.path = p] : p \in PathInputs \cup BasenameInputs }
    /\ called = {}
    /\ threads = NoThreads
    /\ lock = 0
    /\ conn = Connected

\* a call of get_parent on the path drawn at the start
call_get_parent ==
    /\ Running
    /\ last.op = "none"
    /\ last' = [last EXCEPT !.op = "get_parent", !.out = get_parent(last.path)]
    /\ steps' = steps - 1
    /\ UNCHANGED <<redis, read_only, fast, now, called, threads, lock, conn>>

\* a call of get_basename on the path drawn at the start
call_get_basename ==
    /\ Running
    /\ last.op = "none"
    /\ last' = [last EXCEPT !.op = "get_basename", !.out = get_basename(last.path)]
    /\ steps' = steps - 1
    /\ UNCHANGED <<redis, read_only, fast, now, called, threads, lock, conn>>

NextPath == call_get_parent \/ call_get_basename

SpecPath == InitPath /\ [][NextPath]_vars

\* k is the place of the last '/' of p
IsLastSlash(p, k) ==
    /\ k \in 1 .. Len(p)
    /\ p[k] = SLASH
    /\ \A j \in (k + 1) .. Len(p) : p[j] # SLASH

\* C20: parent("/") is "/"; for every p that holds a '/', parent(p) is p cut
\* just before its last '/', or "/" when the cut is empty, so that
\* "/etc/steve", "/etc/" and "/etc/fdsfsteve" all give "/etc"; for p without
\* a '/' parent(p) is NULL.  ".", ".." and repeated slashes are left as they
\* are.
C20_Parent ==
    last.op = "get_parent" =>
       LET p == last.path
           r == last.out
       IN  /\ p = RootPath => r = RootPath
           /\ \A k \in 1 .. Len(p) :
                 IsLastSlash(p, k) =>
                    r = (IF k = 1 THEN RootPath ELSE SubSeq(p, 1, k - 1))
           /\ (\A k \in 1 .. Len(p) : p[k] # SLASH) => r = NULL
           /\ p \in {EtcSteve, EtcSlash, EtcFdsfsteve} => r = Etc
           /\ p = <<SLASH, SLASH, "a">> => r = <<SLASH>>
           /\ p = <<SLASH, ".", ".", SLASH>> => r = <<SLASH, ".", ".">>

\* get_parent has been applied to "/a/.", which ends in a dot entry, and gave
\* "/a"
C20_Witness ==
    /\ last.op = "get_parent"
    /\ last.path = <<SLASH, "a", SLASH, ".">>
    /\ last.out = <<SLASH, "a">>

\* C21: basename(p) is the part of p after its last '/', and p itself when p
\* holds no '/': "/etc/steve", "/steve", "/f////steve", "/etc/..//steve/steve"
\* and "./steve" all give "steve", and the result never holds a '/'.
C21_Basename ==
    last.op = "get_basename" =>
       LET p == last.path
           r == last.out
       IN  /\ \A k \in 1 .. Len(p) :
                 IsLastSlash(p, k) => r = SubSeq(p, k + 1, Len(p))
           /\ (\A k \in 1 .. Len(p) : p[k] # SLASH) => r = p
           /\ \A k \in 1 .. Len(r) : r[k] # SLASH
           /\ p \in {EtcSteve, SlashSteve, ManySlashesSteve,
                     EtcDotsSteveSteve, DotSlashSteve} => r = Steve
           /\ p = NoPath => r = NoPath

\* get_basename has been applied to "/etc/..//steve/steve" and gave "steve"
C21_Witness ==
    /\ last.op = "get_basename"
    /\ last.path = EtcDotsSteveSteve
    /\ last.out = Steve

-----------------------------------------------------------------------------
(* Invariants of the store *)

\* the inodes that own a directory set: the root and the allocated numbers
Directories == {ROOT} \cup (1 .. MaxInode)

\* C22: after any sequence of handler calls, no two different members of one
\* directory set have equal NAME values; create, mkdir, symlink and rename
\* onto a name that exists in the destination directory keep it so.
C22_NamesUniqueInDirectory ==
    \A d \in Directories : \A c1, c2 \in Members(redis, d) :
       (c1 # c2 /\ Exists(redis, c1, "NAME") /\ Exists(redis, c2, "NAME"))
          => Get(redis, c1, "NAME") # Get(redis, c2, "NAME")

\* C23: after any sequence of handler calls on any paths, "/" included, no
\* attribute key of the root inode -99 exists; the only object keyed by -99 is
\* its directory set.
C23_RootHasNoKeys == NoKeys(redis, ROOT)

\* inode i has an attribute key other than TYPE
HasOtherKey(S, i) == \E a \in AttrNames \ {"TYPE"} : Exists(S, i, a)

\* C24: after any sequence of completed handler calls, for every inode number
\* i the TYPE key of i exists exactly when some other attribute key of i
\* exists; no handler leaves an attribute key for an inode without TYPE, on
\* paths that do not resolve either.
C24_TypeIffOtherKeys ==
    \A i \in InodeIds : Exists(redis, i, "TYPE") <=> HasOtherKey(redis, i)

-----------------------------------------------------------------------------
(* Files made, written and truncated, from the empty store *)

SizeSteps == 3

InitSize ==
    /\ redis = EmptyStore
    /\ read_only = FALSE
    /\ fast \in BOOLEAN
    /\ now = 1
    /\ steps = SizeSteps
    /\ last = NoCall
    /\ called = {}
    /\ threads = NoThreads
    /\ lock = 0
    /\ conn = Connected

NextSize ==
    \/ /\ Running
       /\ \E p \in Paths1 : \E pos \in Positions(redis, get_parent(p)) :
             fs_create(p, FileMode, 0, 0, pos)
    \/ \E p \in Paths1, b \in DataBufs, o \in 0 .. MaxOffset : fs_write(p, b, o)
    \/ \E p \in Paths1 : fs_truncate(p)

SpecSize == InitSize /\ [][NextSize]_vars

\* C25: after any sequence of create, write (at offset 0 and at any offset
\* above 0, with any size) and truncate calls, every FILE inode that has a DATA
\* key has a SIZE equal to the byte length of DATA, and SIZE is 0 when DATA is
\* absent.
C25_SizeIsLengthOfData ==
    \A i \in 1 .. MaxInode :
       redis.INODE[i]["TYPE"] = Val("FILE") =>
          /\ Exists(redis, i, "SIZE")
          /\ atoi(Get(redis, i, "SIZE")) =
                (IF Exists(redis, i, "DATA") THEN Len(Get(redis, i, "DATA")) ELSE 0)

\* a file was made, written at offset 0 and then at offset 1, and holds the
\* two bytes with SIZE 2
C25_Witness ==
    /\ called = {"create", "write"}
    /\ steps = SizeSteps - 3
    /\ last.op = "write"
    /\ last.args.offset = 1
    /\ last.args.buf = <<"y">>
    /\ last.ino \in 1 .. MaxInode
    /\ Get(redis, last.ino, "DATA") = <<"x", "y">>
    /\ Get(redis, last.ino, "SIZE") = Fmt_d(2)

-----------------------------------------------------------------------------
(* The global lock *)

\* this step is a handler call that returned
Returned ==
    /\ last' # last
    /\ last'.op # "none"
    /\ last'.ret # SEGV

-----------------------------------------------------------------------------
(* The inode counter *)

\* the inode numbers that appear in an attribute key or in a directory set
NumbersInUse(S) ==
    { i \in InodeIds : ~NoKeys(S, i) } \cup UNION { Members(S, d) : d \in InodeIds }

\* C26: in every reachable state the global inode counter is strictly greater
\* than every inode number that appears in an attribute key or in a directory
\* set.
C26_CounterAboveAllocated ==
    \A n \in NumbersInUse(redis) : redis.GLOBAL_INODE > n

\* C26 as the code has it: the counter is at least every such number; the
\* number INCR returns is handed out, so the newest inode equals the counter.
C26_CounterAtLeastAllocated ==
    \A n \in NumbersInUse(redis) : redis.GLOBAL_INODE >= n

\* two allocations from the empty store: the counter is 2 and inode 2 has its
\* keys and is a member of a directory set
C26_Witness ==
    /\ steps = AllocSteps - 2
    /\ redis.GLOBAL_INODE = 2
    /\ Exists(redis, 2, "TYPE")
    /\ \E d \in InodeIds : 2 \in Members(redis, d)
    /\ Exists(redis, 1, "TYPE")
    /\ last.op \in {"create", "mkdir", "symlink"}
    /\ last.ret = 0
    /\ last.ino = 2

-----------------------------------------------------------------------------
(* Entries made, moved and removed at the paths the kernel can name: an entry
   is never made at "/" nor moved from or onto it *)

NameSteps == 3
EntryPaths == Paths1 \cup Paths2

InitNames ==
    /\ redis \in {EmptyStore, TreeStore}
    /\ read_only = FALSE
    /\ fast = FALSE
    /\ now = 1
    /\ steps = NameSteps
    /\ last = NoCall
    /\ called = {}
    /\ threads = NoThreads
    /\ lock = 0
    /\ conn = Connected

NextNames ==
    \/ /\ Running
       /\ \E p \in EntryPaths : \E pos \in Positions(redis, get_parent(p)) :
             fs_create(p, FileMode, 0, 0, pos)
    \/ /\ Running
       /\ \E p \in EntryPaths : \E pos \in Positions(redis, get_parent(p)) :
             fs_mkdir(p, DirMode, 0, 0, pos)
    \/ /\ Running
       /\ \E p \in EntryPaths, t \in Targets :
             \E pos \in Positions(redis, get_parent(p)) : fs_symlink(t, p, 0, 0, pos)
    \/ \E p \in EntryPaths : fs_unlink(p)
    \/ \E p \in EntryPaths : fs_rmdir(p)
    \/ /\ Running
       /\ \E old \in EntryPaths, new \in EntryPaths :
             \E pos \in Positions(redis, get_parent(new)) : fs_rename(old, new, pos)

SpecNames == InitNames /\ [][NextNames]_vars

-----------------------------------------------------------------------------
(* Handlers called at the same time by the threads of the bridge; each handler
   runs command by command, with its local variables, as the source has it *)

Threads == {1, 2}

\* the calls made at the same time, on the store that holds /a and /a/a
ConcCalls ==
    { [op |-> "create", path |-> <<SLASH, "b">>, buf |-> <<>>],
      [op |-> "create", path |-> <<SLASH, "a", SLASH, "b">>, buf |-> <<>>],
      [op |-> "unlink", path |-> <<SLASH, "a", SLASH, "a">>, buf |-> <<>>],
      [op |-> "write", path |-> <<SLASH, "a", SLASH, "a">>, buf |-> <<"x">>],
      [op |-> "write", path |-> <<SLASH, "a", SLASH, "a">>, buf |-> <<"x", "y">>],
      [op |-> "open", path |-> <<SLASH, "a", SLASH, "a">>, buf |-> <<>>] }

NoConcCall == [op |-> "none", path |-> <<>>, buf |-> <<>>]

Idle == [pc |-> "idle", call |-> NoConcCall, inode |-> 0, parent_inode |-> 0, ret |-> 0]

InitConc ==
    /\ redis = TreeStore
    /\ read_only = FALSE
    /\ fast \in BOOLEAN
    /\ now = 1
    /\ steps = 0
    /\ last = NoCall
    /\ called = {}
    /\ threads = [t \in Threads |-> Idle]
    /\ lock = 0
    /\ conn = Connected

\* a step of thread t that leaves the store and the lock alone
Local(t, new) ==
    /\ threads' = [threads EXCEPT ![t] = new]
    /\ UNCHANGED <<redis, read_only, fast, now, steps, last, called, lock, conn>>

\* a step of thread t that issues store commands
Command(t, S, new) ==
    /\ redis' = S
    /\ threads' = [threads EXCEPT ![t] = new]
    /\ UNCHANGED <<read_only, fast, now, steps, last, called, lock, conn>>

\* the bridge calls a handler on thread t
Call(t, c) ==
    /\ threads[t].pc = "idle"
    /\ Local(t, [threads[t] EXCEPT !.pc = "entry", !.call = c])

\* fs_open under --fast: return 0 before the lock
fast_return(t) ==
    /\ threads[t].pc = "entry"
    /\ threads[t].call.op = "open"
    /\ fast
    /\ Local(t, [threads[t] EXCEPT !.pc = "returned", !.ret = 0])

\* pthread_mutex_lock taking the lock whether it is free or not
pthread_mutex_lock_unguarded(t) ==
    /\ threads[t].pc = "entry"
    /\ ~(threads[t].call.op = "open" /\ fast)
    /\ lock' = t
    /\ threads' = [threads EXCEPT ![t].pc = "locked"]
    /\ UNCHANGED <<redis, read_only, fast, now, steps, last, called, conn>>

\* pthread_mutex_lock(&_g_lock): the thread goes on when the lock is free
pthread_mutex_lock(t) ==
    /\ threads[t].pc = "entry"
    /\ ~(threads[t].call.op = "open" /\ fast)
    /\ lock = 0
    /\ lock' = t
    /\ threads' = [threads EXCEPT ![t].pc = "locked"]
    /\ UNCHANGED <<redis, read_only, fast, now, steps, last, called, conn>>

\* the first commands of the handler: find_inode of the path, or of the
\* parent in fs_create, after the read-only test
resolve(t) ==
    LET me == threads[t]
        c == me.call
    IN  /\ me.pc = "locked"
        /\ IF read_only /\ c.op \in Mutators
           THEN Local(t, [me EXCEPT !.pc = "unlock", !.ret = -EPERM])
           ELSE IF c.op = "create"
           THEN Local(t, [me EXCEPT !.pc = "s1",
                                    !.parent_inode = find_inode(redis, get_parent(c.path))])
           ELSE LET inode == find_inode(redis, c.path) IN
                IF inode = NOT_FOUND /\ c.op = "unlink"
                THEN Local(t, [me EXCEPT !.pc = "unlock", !.ret = -ENOENT])
                ELSE IF inode = NOT_FOUND /\ c.op = "open"
                THEN Local(t, [me EXCEPT !.pc = "unlock", !.ret = 0])
                ELSE Local(t, [me EXCEPT !.pc = "s1", !.inode = inode])

\* the next command: INCR in fs_create, SREM in fs_unlink, the MSET of
\* fs_write at offset 0, the SET of ATIME in fs_open
command1(t) ==
    LET me == threads[t]
        c == me.call
    IN  /\ me.pc = "s1"
        /\ CASE c.op = "create" ->
                  LET alloc == get_next_inode(redis) IN
                  /\ alloc.val <= MaxInode
                  /\ Command(t, alloc.redis, [me EXCEPT !.pc = "s2", !.inode = alloc.val])
             [] c.op = "unlink" ->
                  LET parent_inode == find_inode(redis, get_parent(c.path)) IN
                  Command(t, SRem(redis, parent_inode, me.inode),
                          [me EXCEPT !.pc = "s2", !.parent_inode = parent_inode])
             [] c.op = "write" ->
                  Command(t, MSet(redis, me.inode,
                                  << <<"SIZE", Fmt_d(Len(c.buf))>>, <<"MTIME", Fmt_d(now)>>,
                                     <<"DATA", c.buf>> >>),
                          [me EXCEPT !.pc = "unlock", !.ret = Len(c.buf)])
             [] c.op = "open" ->
                  Command(t, MSet(redis, me.inode, << <<"ATIME", Fmt_d(now)>> >>),
                          [me EXCEPT !.pc = "unlock", !.ret = 0])

\* the last commands: SADD and MSET in fs_create, remove_inode in fs_unlink
command2(t) ==
    LET me == threads[t]
        c == me.call
    IN  /\ me.pc = "s2"
        /\ CASE c.op = "create" ->
                  \E pos \in 0 .. Len(redis.DIRENT[me.parent_inode]) :
                     Command(t, MSet(SAdd(redis, me.parent_inode, me.inode, pos), me.inode,
                                     new_entry_attrs(get_basename(c.path), "FILE",
                                                     FileMode, 0, 0, now)),
                             [me EXCEPT !.pc = "unlock", !.ret = 0])
             [] c.op = "unlink" ->
                  Command(t, remove_inode(redis, me.inode),
                          [me EXCEPT !.pc = "unlock", !.ret = 0])

\* a return that leaves _g_lock held
pthread_mutex_unlock_keeping(t) ==
    /\ threads[t].pc = "unlock"
    /\ lock' = lock
    /\ threads' = [threads EXCEPT ![t].pc = "returned"]
    /\ UNCHANGED <<redis, read_only, fast, now, steps, last, called, conn>>

\* pthread_mutex_unlock(&_g_lock) and the return
pthread_mutex_unlock(t) ==
    /\ threads[t].pc = "unlock"
    /\ lock' = 0
    /\ threads' = [threads EXCEPT ![t].pc = "returned"]
    /\ UNCHANGED <<redis, read_only, fast, now, steps, last, called, conn>>

NextConc ==
    \/ \E t \in Threads, c \in ConcCalls : Call(t, c)
    \/ \E t \in Threads : fast_return(t)
    \/ \E t \in Threads : pthread_mutex_lock(t)
    \/ \E t \in Threads : resolve(t)
    \/ \E t \in Threads : command1(t)
    \/ \E t \in Threads : command2(t)
    \/ \E t \in Threads : pthread_mutex_unlock(t)

SpecConc == InitConc /\ [][NextConc]_vars

\* the thread is between acquiring and releasing the lock
InHandler(t) == threads[t].pc \in {"locked", "s1", "s2", "unlock"}

\* the stores one call can leave when it runs alone on store S
After(S, c) ==
    CASE c.op = "create" ->
            { create_body(S, c.path, FileMode, 0, 0, now, pos).redis :
                 pos \in Positions(S, get_parent(c.path)) }
      [] c.op = "unlink" -> { unlink_body(S, c.path).redis }
      [] c.op = "write" -> { write_body(S, c.path, c.buf, 0, now).redis }
      [] c.op = "open" ->
            { IF fast THEN S ELSE atime_body(S, c.path, now).redis }

\* the stores the two calls can leave when one runs after the other
Serial(c1, c2) ==
    UNION { After(S1, c2) : S1 \in After(TreeStore, c1) }
       \cup UNION { After(S2, c1) : S2 \in After(TreeStore, c2) }

\* C28: with handlers called at the same time from several threads, at most
\* one handler is between acquiring and releasing the global lock, every
\* store command is issued by the thread that holds the lock, and the store
\* the run ends with is the store of some serial order of the same calls.
C28_Serialised ==
    /\ \A t, u \in Threads : (InHandler(t) /\ InHandler(u)) => t = u
    /\ \A t \in Threads : InHandler(t) => lock = t
    /\ (\A t \in Threads : threads[t].pc = "returned")
          => redis \in Serial(threads[1].call, threads[2].call)

\* two creations of one path at the same time: one thread is about to write
\* the entry while the other waits for the lock
C28_Witness ==
    /\ threads[1].pc = "s2"
    /\ lock = 1
    /\ threads[2].pc = "entry"
    /\ threads[1].call.op = "create"
    /\ threads[2].call = threads[1].call

-----------------------------------------------------------------------------
(* The connection _g_redis: commands are sent in the order they are issued and
   the server answers them in that order; a reply is named by the command it
   answers *)

\* redisAppendCommand(_g_redis, cmd): the command is queued, its reply is to come
redisAppendCommand(c, cmd) ==
    IF c.blocked THEN c
    ELSE [c EXCEPT !.pending = Append(@, cmd), !.issued = Append(@, cmd)]

\* redisGetReply(_g_redis, &reply): hands over the oldest reply not read yet,
\* and waits when there is none to come
redisGetReply(c) ==
    IF c.blocked THEN c
    ELSE IF c.pending = <<>> THEN [c EXCEPT !.blocked = TRUE]
    ELSE [c EXCEPT !.pending = Tail(@), !.got = Append(@, Head(c.pending))]

\* redisCommand(_g_redis, cmd): the command is queued and one reply is read
redisCommand(c, cmd) == redisGetReply(redisAppendCommand(c, cmd))

\* the reply the last redisGetReply handed over
reply(c) == c.got[Len(c.got)]

\* redis_alive(): PING, and a new connection when the reply is not PONG
redis_alive(c) ==
    LET c1 == redisCommand(c, "PING")
    IN  IF c1.blocked \/ reply(c1) = "PING" THEN c1
        ELSE [c1 EXCEPT !.pending = <<>>, !.connections = @ + 1]

RECURSIVE AppendAll(_, _)
AppendAll(c, cmds) ==
    IF cmds = <<>> THEN c
    ELSE AppendAll(redisAppendCommand(c, Head(cmds)), Tail(cmds))

RECURSIVE Drain(_, _)
Drain(c, n) == IF n = 0 THEN c ELSE Drain(redisGetReply(c), n - 1)

\* the handler starts: nothing sent and nothing read by it yet
Entered(c) == [c EXCEPT !.issued = <<>>, !.got = <<>>]

\* find_inode(path): for every component PING, SMEMBERS and, when the reply
\* to SMEMBERS is an array, MGET of the names
RECURSIVE find_inode_commands(_, _)
find_inode_commands(c, path) ==
    IF path = RootPath \/ LastSlash(path) = 0 THEN c
    ELSE LET c1 == redis_alive(c)
             c2 == find_inode_commands(c1, get_parent(path))
             c3 == redisCommand(c2, "SMEMBERS")
         IN  IF ~c3.blocked /\ reply(c3) = "SMEMBERS"
             THEN redisCommand(c3, "MGET NAME")
             ELSE c3

get_next_inode_commands(c) == redisCommand(redis_alive(c), "INCR")

remove_inode_names ==
    << "DEL NAME", "DEL TYPE", "DEL MODE", "DEL GID", "DEL UID", "DEL ATIME",
       "DEL CTIME", "DEL MTIME", "DEL SIZE", "DEL DATA", "DEL LINK", "DEL TARGET" >>

remove_inode_commands(c, inode) ==
    IF inode < 0 THEN c
    ELSE Drain(AppendAll(redis_alive(c), remove_inode_names), Len(remove_inode_names))

fs_getattr_commands(c, S, path) ==
    LET c1 == redis_alive(Entered(c))
        c2 == find_inode_commands(c1, path)
    IN  IF path = RootPath THEN c1
        ELSE IF find_inode(S, path) = NOT_FOUND THEN c2
        ELSE redisCommand(
                redisGetReply(redisAppendCommand(c2, "MGET CTIME ATIME MTIME GID UID LINK")),
                "MGET TYPE MODE SIZE")

fs_mkdir_commands(c, path) ==
    IF read_only THEN Entered(c)
    ELSE LET c1 == redis_alive(Entered(c))
             c2 == get_next_inode_commands(c1)
             c3 == find_inode_commands(c2, get_parent(path))
         IN  Drain(AppendAll(c3, << "SADD", "MSET NAME TYPE MODE UID GID SIZE CTIME MTIME ATIME LINK" >>), 2)

fs_create_commands(c, path) ==
    IF read_only THEN Entered(c)
    ELSE LET c1 == redis_alive(Entered(c))
             c2 == find_inode_commands(c1, get_parent(path))
             c3 == get_next_inode_commands(c2)
         IN  Drain(AppendAll(c3, << "SADD", "MSET NAME TYPE MODE UID GID SIZE CTIME MTIME ATIME LINK" >>), 2)

fs_symlink_names ==
    << "SADD", "SET NAME", "SET TYPE", "SET TARGET", "SET MODE", "SET UID", "SET GID",
       "SET SIZE", "SET CTIME", "SET MTIME", "SET ATIME", "SET LINK" >>

fs_symlink_commands(c, path) ==
    IF read_only THEN Entered(c)
    ELSE LET c1 == redis_alive(Entered(c))
             c2 == find_inode_commands(c1, get_parent(path))
             c3 == get_next_inode_commands(c2)
         IN  Drain(AppendAll(c3, fs_symlink_names), 11)

fs_write_commands(c, path, offset) ==
    IF read_only THEN Entered(c)
    ELSE LET c1 == redis_alive(Entered(c))
             c2 == find_inode_commands(c1, path)
         IN  IF offset = 0
             THEN redisGetReply(redisAppendCommand(c2, "MSET SIZE MTIME DATA"))
             ELSE LET c3 == AppendAll(c2, << "INCRBY SIZE", "APPEND DATA" >>)
                      c4 == IF fast THEN c3
                            ELSE redisGetReply(redisAppendCommand(c3, "SET MTIME"))
                  IN  Drain(c4, 2)

fs_unlink_commands(c, S, path) ==
    IF read_only THEN Entered(c)
    ELSE LET c1 == redis_alive(Entered(c))
             c2 == find_inode_commands(c1, path)
             c3 == find_inode_commands(c2, get_parent(path))
             c4 == redisCommand(c3, "SREM")
         IN  IF find_inode(S, path) = NOT_FOUND THEN c2
             ELSE remove_inode_commands(c4, find_inode(S, path))

\* a handler call together with what it sends and reads on the connection; a
\* handler that waits for a reply that never comes does not return
Converse(op, path, args, R, c) ==
    /\ Running
    /\ ~conn.blocked
    /\ IF c.blocked
       THEN /\ conn' = c
            /\ UNCHANGED <<redis, read_only, fast, now, steps, last, called, threads, lock>>
       ELSE /\ Step(op, path, args, R)
            /\ conn' = IF R.ret = SEGV THEN conn ELSE c

PipeSteps == 3

InitPipe ==
    /\ redis \in {EmptyStore, TreeStore}
    /\ read_only = FALSE
    /\ fast \in BOOLEAN
    /\ now = 1
    /\ steps = PipeSteps
    /\ last = NoCall
    /\ called = {}
    /\ threads = NoThreads
    /\ lock = 0
    /\ conn = Connected

NextPipe ==
    \/ \E p \in EntryPaths \cup {RootPath}, slot6 \in Slot6 :
          Converse("getattr", p, NoArgs, getattr_body(redis, p, now, slot6),
                   fs_getattr_commands(conn, redis, p))
    \/ /\ CanAllocate
       /\ \E p \in EntryPaths : \E pos \in Positions(redis, get_parent(p)) :
             Converse("mkdir", p, [mode |-> DirMode, uid |-> 0, gid |-> 0],
                      mkdir_body(redis, p, DirMode, 0, 0, now, pos),
                      fs_mkdir_commands(conn, p))
    \/ /\ CanAllocate
       /\ \E p \in EntryPaths : \E pos \in Positions(redis, get_parent(p)) :
             Converse("create", p, [mode |-> FileMode, uid |-> 0, gid |-> 0],
                      create_body(redis, p, FileMode, 0, 0, now, pos),
                      fs_create_commands(conn, p))
    \/ /\ CanAllocate
       /\ \E p \in EntryPaths, t \in Targets :
             \E pos \in Positions(redis, get_parent(p)) :
                Converse("symlink", p, [target |-> t, uid |-> 0, gid |-> 0],
                         symlink_body(redis, t, p, 0, 0, now, pos),
                         fs_symlink_commands(conn, p))
    \/ \E p \in EntryPaths, offset \in 0 .. 1 :
          Converse("write", p, [buf |-> <<"x">>, size |-> 1, offset |-> offset],
                   write_body(redis, p, <<"x">>, offset, now),
                   fs_write_commands(conn, p, offset))
    \/ \E p \in EntryPaths :
          Converse("unlink", p, NoArgs, unlink_body(redis, p),
                   fs_unlink_commands(conn, redis, p))

SpecPipe == InitPipe /\ [][NextPipe]_vars

\* C30: when a handler that pipelines commands returns, it has read as many
\* replies as it issued commands, each reply read is the reply of the command
\* issued at the same place in the order, and no reply is left to be read, so
\* that the next command reads its own reply.
C30_RepliesDrained ==
    (last.op # "none" /\ last.ret # SEGV)
       => /\ ~conn.blocked
          /\ Len(conn.got) = Len(conn.issued)
          /\ conn.got = conn.issued
          /\ conn.pending = <<>>

-----------------------------------------------------------------------------
(* Resolution of paths *)

\* C31: in every reachable store, a path whose parent does not resolve does
\* not resolve either: find_inode(path) is -1 whenever find_inode of the
\* parent of the path is -1.
C31_NotFoundUnderNotFound ==
    \A p \in Paths1 \cup Paths2 :
       find_inode(redis, get_parent(p)) = NOT_FOUND => find_inode(redis, p) = NOT_FOUND

\* the places in the set of directory d of the members named as path is
Matches(S, d, path) ==
    { i \in 1 .. Len(S.DIRENT[d]) : S.INODE[S.DIRENT[d][i]]["NAME"] = Val(get_basename(path)) }

Least(I) == CHOOSE i \in I : \A j \in I : i <= j
Greatest(I) == CHOOSE i \in I : \A j \in I : j <= i

\* what find_inode has to return for path when, of several members of the
\* same name, the one at place Pick(places) is the answer
ResolvesBy(Pick(_), p) ==
    LET d == find_inode(redis, get_parent(p))
        I == Matches(redis, d, p)
    IN  find_inode(redis, p) # SEGV
           => find_inode(redis, p) = IF I = {} THEN NOT_FOUND ELSE redis.DIRENT[d][Pick(I)]

-----------------------------------------------------------------------------
(* The life of an inode *)

Creators == {"create", "mkdir", "symlink"}

-----------------------------------------------------------------------------
(* The liveness check *)

\* the call returns before its first store command: a mutator on a
\* read-only mount, or open or access under --fast
ReturnsEarly ==
    \/ read_only /\ last'.op \in Mutators
    \/ fast /\ last'.op \in {"open", "access"}

\* C35: every handler that issues store commands has run redis_alive, under
\* the lock, before its first command, whatever the path is, "/" included.
C35_AliveBeforeCommands ==
    [][(Returned /\ ~ReturnsEarly) => (last'.alive /\ last'.locks = 1)]_vars

-----------------------------------------------------------------------------
(* The tree: paths of up to three components, those under a directory that
   does not exist included *)

Paths3 == { <<SLASH, "a", SLASH, "a", SLASH, n>> : n \in Names }

DeepPaths == Paths1 \cup Paths2 \cup Paths3

DeepSteps == 2

InitDeep ==
    /\ redis \in {EmptyStore, TreeStore}
    /\ read_only = FALSE
    /\ fast = FALSE
    /\ now = 1
    /\ steps = DeepSteps
    /\ last = NoCall
    /\ called = {}
    /\ threads = NoThreads
    /\ lock = 0
    /\ conn = Connected

NextDeep ==
    \/ /\ Running
       /\ \E p \in DeepPaths : \E pos \in Positions(redis, get_parent(p)) :
             fs_create(p, FileMode, 0, 0, pos)
    \/ /\ Running
       /\ \E p \in DeepPaths : \E pos \in Positions(redis, get_parent(p)) :
             fs_mkdir(p, DirMode, 0, 0, pos)
    \/ \E p \in DeepPaths : fs_unlink(p)
    \/ \E p \in DeepPaths : fs_rmdir(p)
    \/ /\ Running
       /\ \E old \in DeepPaths, new \in DeepPaths :
             \E pos \in Positions(redis, get_parent(new)) : fs_rename(old, new, pos)

SpecDeep == InitDeep /\ [][NextDeep]_vars

\* the directory sets that hold inode i
ParentsOf(S, i) == { d \in InodeIds : i \in Members(S, d) }

\* C36: after any sequence of handler calls every inode number is a member of
\* at most one directory set.
C36_OneParent ==
    \A i \in InodeIds : Cardinality(ParentsOf(redis, i)) <= 1

\* the inodes reached from the set R by following directory sets
RECURSIVE ReachableFrom(_, _)
ReachableFrom(S, R) ==
    LET next == R \cup UNION { Members(S, d) \cap InodeIds : d \in R }
    IN  IF next = R THEN R ELSE ReachableFrom(S, next)

\* C37: after any sequence of completed handler calls, every inode that has
\* attribute keys and every directory set that is not empty belongs to an
\* inode reachable from the root through directory sets.
C37_NoOrphans ==
    \A i \in InodeIds :
       (~NoKeys(redis, i) \/ Members(redis, i) # {}) => i \in ReachableFrom(redis, {ROOT})

\* C38: mkdir, create and symlink called with a path whose parent does not
\* resolve write no attribute key and add no member to any directory set,
\* the set of the inode -1 included.
C38_MissingParentWritesNothing ==
    [][(last' # last /\ last'.op \in Creators
           /\ find_inode(redis, get_parent(last'.path)) = NOT_FOUND)
          => /\ redis'.INODE = redis.INODE
             /\ redis'.DIRENT = redis.DIRENT]_vars

-----------------------------------------------------------------------------
(* Termination: threads that call handlers again and again, the descent of
   find_inode through the parents of a path taken level by level *)

LiveCalls ==
    { [op |-> "open", path |-> <<SLASH, "a", SLASH, "a">>, buf |-> <<>>],
      [op |-> "open", path |-> <<SLASH, SLASH, "a">>, buf |-> <<>>],
      [op |-> "unlink", path |-> <<SLASH, "a", SLASH, "a">>, buf |-> <<>>] }

\* a thread between two calls
Waiting ==
    [pc |-> "idle", call |-> NoConcCall, inode |-> 0, parent_inode |-> 0, ret |-> 0,
     rest |-> <<>>, depth |-> 0]

InitLive ==
    /\ redis = TreeStore
    /\ read_only = FALSE
    /\ fast \in BOOLEAN
    /\ now = 1
    /\ steps = 0
    /\ last = NoCall
    /\ called = {}
    /\ threads = [t \in Threads |-> Waiting]
    /\ lock = 0
    /\ conn = Connected

\* the handler calls find_inode(path)
find_inode_call(t) ==
    /\ threads[t].pc = "locked"
    /\ Local(t, [threads[t] EXCEPT !.pc = "down", !.rest = threads[t].call.path,
                                   !.depth = 0])

\* find_inode(rest): return at "/", else find_inode(get_parent(rest)); a path
\* without '/' has the parent NULL, which strcmp cannot read
find_inode_enter(t) ==
    LET me == threads[t] IN
    /\ me.pc = "down"
    /\ IF me.rest = RootPath THEN Local(t, [me EXCEPT !.pc = "up"])
       ELSE IF get_parent(me.rest) = NULL THEN Local(t, [me EXCEPT !.pc = "crashed"])
       ELSE Local(t, [me EXCEPT !.rest = get_parent(me.rest), !.depth = @ + 1])

\* the recursive call has returned: SMEMBERS, MGET and the scan of one level
find_inode_leave(t) ==
    LET me == threads[t] IN
    /\ me.pc = "up"
    /\ IF me.depth = 0 THEN Local(t, [me EXCEPT !.pc = "found"])
       ELSE Local(t, [me EXCEPT !.depth = @ - 1])

\* what the handler does with the inode found
handler_body(S, c) ==
    CASE c.op = "open" -> atime_body(S, c.path, now)
      [] c.op = "unlink" -> unlink_body(S, c.path)

handler_commands(t) ==
    LET me == threads[t]
        R == handler_body(redis, me.call)
    IN  /\ me.pc = "found"
        /\ IF R.ret = SEGV THEN Local(t, [me EXCEPT !.pc = "crashed"])
           ELSE Command(t, R.redis, [me EXCEPT !.pc = "unlock", !.ret = R.ret])

\* the bridge hands the thread its next request
next_request(t) ==
    /\ threads[t].pc = "returned"
    /\ Local(t, Waiting)

\* the steps thread t takes by itself once the bridge has called it
Proceed(t) ==
    \/ fast_return(t)
    \/ find_inode_call(t)
    \/ find_inode_enter(t)
    \/ find_inode_leave(t)
    \/ handler_commands(t)
    \/ pthread_mutex_unlock(t)

NextLive ==
    \/ \E t \in Threads, c \in LiveCalls : Call(t, c)
    \/ \E t \in Threads : pthread_mutex_lock(t)
    \/ \E t \in Threads : Proceed(t)
    \/ \E t \in Threads : next_request(t)

\* fair scheduling: a thread that can take a step takes it, and a thread that
\* finds the lock free again and again gets it
SpecLive ==
    /\ InitLive
    /\ [][NextLive]_vars
    /\ \A t \in Threads : WF_vars(Proceed(t)) /\ SF_vars(pthread_mutex_lock(t))

RECURSIVE Slashes(_)
Slashes(s) == IF s = <<>> THEN 0 ELSE (IF Head(s) = SLASH THEN 1 ELSE 0) + Slashes(Tail(s))

-----------------------------------------------------------------------------
(* The reply slots of getattr: which element of the first MGET reply each
   stat field is taken from *)

\* the keys of the first MGET of fs_getattr in the order of the request;
\* the reply has one element for each, element[0] to element[5]
getattr_keys == <<"CTIME", "ATIME", "MTIME", "GID", "UID", "LINK">>

\* the seven reads of that reply in the order of the code: element[test] is
\* tested for a string and element[from]->str is converted into the field
getattr_reads ==
    << [test |-> 0, from |-> 0, field |-> "st_ctime"],
       [test |-> 1, from |-> 1, field |-> "st_atime"],
       [test |-> 2, from |-> 2, field |-> "st_mtime"],
       [test |-> 3, from |-> 3, field |-> "st_gid"],
       [test |-> 4, from |-> 3, field |-> "st_uid"],
       [test |-> 5, from |-> 4, field |-> "st_nlink"],
       [test |-> 6, from |-> 5, field |-> "st_ctime"] >>

\* the attribute that has the name of a stat field
AttrOf ==
    [st_ctime |-> "CTIME", st_atime |-> "ATIME", st_mtime |-> "MTIME",
     st_gid |-> "GID", st_uid |-> "UID", st_nlink |-> "LINK"]

\* the last call was getattr of a path below the root that resolves to an
\* inode with all six attributes of the first MGET in the store
GetattrOfStoredInode ==
    /\ last.op = "getattr"
    /\ last.path # RootPath
    /\ find_inode(redis, last.path) \notin {NOT_FOUND, SEGV}
    /\ \A k \in 1 .. Len(getattr_keys) :
          redis.INODE[find_inode(redis, last.path)][getattr_keys[k]] # Nil

\* C40: every slot getattr reads from the reply of its first MGET is a slot
\* of that reply (its index is smaller than the number of keys requested),
\* and each of ctime, atime, mtime, gid, uid and nlink is filled from the
\* slot of the attribute of the same name: getattr of a stored inode returns
\* and reports each field as the store holds the attribute.
C40_SlotsOfTheSameName ==
    GetattrOfStoredInode =>
       LET a == redis.INODE[find_inode(redis, last.path)] IN
       /\ \A k \in 1 .. Len(getattr_reads) :
             /\ getattr_reads[k].test < Len(getattr_keys)
             /\ getattr_reads[k].from < Len(getattr_keys)
             /\ getattr_keys[getattr_reads[k].from + 1] = AttrOf[getattr_reads[k].field]
       /\ last.ret = 0
       /\ last.stbuf.st_ctime = atoi(a["CTIME"][1])
       /\ last.stbuf.st_atime = atoi(a["ATIME"][1])
       /\ last.stbuf.st_mtime = atoi(a["MTIME"][1])
       /\ last.stbuf.st_gid = atoi(a["GID"][1])
       /\ last.stbuf.st_uid = atoi(a["UID"][1])
       /\ a["TYPE"] # Val("LINK") => last.stbuf.st_nlink = atoi(a["LINK"][1])

====
